---- MODULE Spec2Model ----
(***************************************************************************)
(* Model of the NAT traversal core of pineapple:                           *)
(*   nat_traversal/mod.rs           NatTraversal::new / connect / state    *)
(*   nat_traversal/signalling.rs    SignallingClient                       *)
(*   nat_traversal/stun.rs          StunClient                             *)
(*   nat_traversal/hole_punching.rs ProbePacket, UdpHolePuncher            *)
(*   nat_traversal/tcp_connect.rs   tcp_simultaneous_open                  *)
(*   main.rs                        run_nat_traversal                      *)
(* One NatTraversal instance is followed through a sequence of connect     *)
(* calls.  pc is the position of the running call; every action is one     *)
(* step of connect between two blocking operations.                        *)
(***************************************************************************)
EXTENDS Integers, Sequences, FiniteSets, TLC

\* ---------------------------------------------------------------- bounds
MaxCalls == 2
MaxIgnored == 1
MaxInbox == 1
MaxPolls == 2
MaxTcpPolls == 2
PunchTurns == 3
MaxWsLatency == 1
MaxFrames == 3
MaxIdLen == 2
TcpTurns == 3

\* ------------------------------------------------------ program constants
PUNCH_TIMEOUT == 30000
SEND_INTERVAL == 200
IDLE_SLEEP == 10
TCP_TIMEOUT == 10000
DIRECT_TIMEOUT == 500
TCP_POLL_SLEEP == 100
PROBE_LEN == 78
RANDOM_PORT == 0

\* ------------------------------------------------------------ value sets
Fingerprints == {"alice", "bob"}
\* ports the operating system hands out for a bind to port 0
EphemeralPorts == {40001, 40002}
\* values of NatTraversalConfig::tcp_port (0 = random)
ConfigTcpPorts == {RANDOM_PORT, 5000}
\* TCP ports a peer can advertise in its probe
PeerTcpPorts == {50001}
ExternalAddrs == {[ip |-> "203.0.113.7", port |-> 61000]}
PeerExternal == [ip |-> "198.51.100.9", port |-> 62000]
PeerLocal == [ip |-> "192.168.1.20", port |-> 40009]
Stranger == [ip |-> "192.0.2.66", port |-> 6666]
NoAddr == [ip |-> "", port |-> 0]
NoSocket == [run |-> 0, n |-> 0, port |-> 0]
NoPeerInfo == [fingerprint |-> "", external_addr |-> NoAddr, local_addr |-> NoAddr, nonce |-> 0]
NoOffer == [target_fingerprint |-> "", external_addr |-> NoAddr, local_addr |-> NoAddr, fingerprint |-> ""]

NoDatagram == [data |-> <<>>, src |-> NoAddr]
NoProbe == [nonce |-> <<>>, tcp_port |-> 0, signature |-> <<>>]
NoResponse == [kind |-> "none"]
NoResult == [ok |-> FALSE, err |-> "not called"]

Min(a, b) == IF a < b THEN a ELSE b

\* the two hosts of the end-to-end scenario, named by their fingerprints
Peers == {"alice", "bob"}
Other(p) == IF p = "alice" THEN "bob" ELSE "alice"
\* NatTraversal::new and the locals of connect before they are set
NewHost ==
  [state |-> "Idle", pc |-> "new", external_addr |-> NoAddr, peer_info |-> NoPeerInfo,
   probe_port |-> 0, sent_probe |-> FALSE, elapsed |-> 0, since_send |-> 0, peer_tcp_port |-> 0,
   tcp_elapsed |-> 0, slept |-> FALSE, crossed |-> FALSE]

\* ConnectionState (types.rs); Failed(reason) is modelled by the tag alone
ConnectionState ==
  {"Idle", "ConnectingSignalling", "Registering", "StunDiscovery", "SendingOffer",
   "WaitingForOffer", "UdpHolePunching", "TcpConnecting", "Connected", "Failed"}

VARIABLES
  local_fingerprint,   \* config.local_fingerprint
  config_tcp_port,     \* config.tcp_port
  state,               \* NatTraversal::state
  pc,                  \* position of the connect call
  calls,               \* connect calls started on this instance
  peer_fingerprint,    \* argument of the running / last call
  trace,               \* values assigned to state by the running call, on the first call
                       \* behind the value the constructor left
  errPhase,            \* phase whose error the last call returned
  everFailed,          \* some connect call on this instance has returned an error
  entry,               \* who drives the instance: none / cli (run_nat_traversal) / lib
  sig,                 \* the run's SignallingClient: none / open / closed / dropped
  registered,          \* SignallingClient::local_fingerprint is Some
  wsSent,              \* types of the messages sent on the signalling connection
  offer,               \* the offer message sent in this run
  ignored,             \* messages skipped by send_offer's loop
  peer_info,           \* PeerInfo returned by send_offer
  closeCalled,         \* SignallingClient::close was performed in this run
  udpBinds,            \* UDP sockets bound in this run
  stunSock,            \* socket owned by the StunClient
  stunLocal,           \* stun_client.local_addr() as read by connect
  external_addr,       \* reflexive address from STUN
  punchSock,           \* socket owned by the UdpHolePuncher
  inbox,               \* datagrams waiting on the UDP socket
  probePort,           \* tcp_port embedded in our probes
  bursts,              \* probe bursts sent by punch_hole
  sentTo,              \* addresses the latest burst called send_to for
  sendFailed,          \* addresses whose send_to failed in the latest burst
  lastRead,            \* datagram the latest successful recv_from returned
  elapsed,             \* start.elapsed() in ms
  sinceSend,           \* last_send.elapsed() in ms
  polls,               \* loop iterations of punch_hole
  peerTcpPort,         \* port returned by punch_hole
  tcpBound,            \* port bound by tcp_simultaneous_open (0 = none bound)
  tcpPeer,             \* address tcp_simultaneous_open connects to
  tcpElapsed,          \* start.elapsed() of tcp_simultaneous_open
  tcpPolls,            \* loop iterations of tcp_simultaneous_open
  tcpVia,              \* how the stream was obtained: none / direct / immediate / polled
  tcpConnect,          \* what the non-blocking socket.connect reported: none / Ok /
                       \* WouldBlock / InProgress / Refused
  probe,               \* ProbePacket handed to to_bytes
  data,                \* bytes handed to from_bytes / parse_binding_response
  transaction_id,      \* transaction ID of the STUN request just sent
  response,            \* what the STUN server put into the datagram in data
  result,              \* value returned by the function under test
  step,                \* position of the function under test
  nat,                 \* two hosts: each one's NatTraversal and the locals of its connect
  wsIn,                \* two hosts: messages on the way from the broker, with their age
  broker,              \* the broker: fingerprints registered, offers held for later
  udpIn,               \* two hosts: datagrams queued on the UDP socket
  client,              \* the SignallingClient under test: ws_stream, local_fingerprint
  args,                \* arguments of the call under test
  heap,                \* FFI: the NatTraversal boxed at each address, if any
  LAST_ERROR           \* FFI: static mut LAST_ERROR

orchVars == <<local_fingerprint, config_tcp_port, state, pc, calls, peer_fingerprint, trace, errPhase, everFailed, entry>>
sigVars == <<sig, registered, wsSent, offer, ignored, peer_info, closeCalled>>
stunVars == <<udpBinds, stunSock, stunLocal, external_addr>>
punchVars == <<punchSock, probePort, bursts, sentTo, sendFailed, lastRead, elapsed, sinceSend,
               polls, peerTcpPort>>
tcpVars == <<tcpBound, tcpPeer, tcpElapsed, tcpPolls, tcpVia, tcpConnect>>
fnVars == <<probe, data, transaction_id, response, result, step>>
pairVars == <<nat, wsIn, broker, udpIn>>
callVars == <<client, args, heap, LAST_ERROR>>
sideVars == <<fnVars, pairVars, callVars>>
vars == <<orchVars, sigVars, stunVars, punchVars, inbox, tcpVars, sideVars>>

\* NatTraversal::new: state Idle, no signalling client
NatTraversal_new ==
  /\ local_fingerprint \in Fingerprints
  /\ config_tcp_port \in ConfigTcpPorts
  /\ state = "Idle"
  /\ pc = "new"
  /\ calls = 0
  /\ peer_fingerprint = ""
  /\ trace = <<"Idle">>
  /\ errPhase = ""
  /\ everFailed = FALSE
  /\ entry = "none"
  /\ sig = "none"
  /\ registered = FALSE
  /\ wsSent = <<>>
  /\ offer = NoOffer
  /\ ignored = 0
  /\ peer_info = NoPeerInfo
  /\ closeCalled = FALSE
  /\ udpBinds = 0
  /\ stunSock = NoSocket
  /\ stunLocal = NoAddr
  /\ external_addr = NoAddr
  /\ punchSock = NoSocket
  /\ inbox = <<>>
  /\ probePort = 0
  /\ bursts = 0
  /\ sentTo = {}
  /\ sendFailed = {}
  /\ lastRead = NoDatagram
  /\ elapsed = 0
  /\ sinceSend = 0
  /\ polls = 0
  /\ peerTcpPort = 0
  /\ tcpBound = 0
  /\ tcpPeer = NoAddr
  /\ tcpElapsed = 0
  /\ tcpPolls = 0
  /\ tcpVia = "none"
  /\ tcpConnect = "none"

\* no codec function is being exercised
NoCall ==
  /\ probe = NoProbe
  /\ data = <<>>
  /\ transaction_id = <<>>
  /\ response = NoResponse
  /\ result = NoResult
  /\ step = "idle"

\* the two-host scenario is not running
NoPair ==
  /\ nat = [p \in Peers |-> NewHost]
  /\ wsIn = [p \in Peers |-> <<>>]
  /\ broker = [registered |-> {}, held |-> {}]
  /\ udpIn = [p \in Peers |-> <<>>]

\* no signalling client or role decision is under test
NoStream == [incoming |-> <<>>, sent |-> <<>>, read |-> <<>>, writable |-> 0]
\* the C interface: addresses a Box may be placed at (MaxHandles of them),
\* the null pointer, and no handle created yet
MaxHandles == 2
Addresses == 1..MaxHandles
NULL == 0
NoFfi ==
  /\ heap = [a \in Addresses |-> <<>>]
  /\ LAST_ERROR = <<>>

NoClient ==
  /\ client = [ws_stream |-> NoStream, local_fingerprint |-> <<>>]
  /\ args = [op |-> "none"]
  /\ NoFfi

Init == NatTraversal_new /\ NoCall /\ NoPair /\ NoClient

\* ------------------------------------------------------------- helpers

\* An error return of connect: every fallible step of mod.rs ends in `?`, which
\* returns the error and drops the locals (signalling, stun_client,
\* hole_puncher); no assignment to self.state is made on that path.
StateOnError(s) == s

Fail(phase) ==
  /\ pc' = "err"
  /\ errPhase' = phase
  /\ everFailed' = TRUE
  /\ state' = StateOnError(state)
  /\ trace' = IF state' = state THEN trace ELSE Append(trace, state')
  /\ sig' = IF sig = "open" THEN "dropped" ELSE sig
  /\ UNCHANGED <<local_fingerprint, config_tcp_port, calls, peer_fingerprint, entry>>
  /\ UNCHANGED <<registered, offer, ignored, peer_info, closeCalled>>

\* variant of Advance: the assignment of StunDiscovery (mod.rs:61) is left out
Advance_NoStunDiscovery(s, next) ==
  /\ state' = IF s = "StunDiscovery" THEN state ELSE s
  /\ trace' = IF s = "StunDiscovery" THEN trace ELSE Append(trace, s)
  /\ pc' = next
  /\ UNCHANGED <<local_fingerprint, config_tcp_port, calls, peer_fingerprint, errPhase,
                 everFailed, entry>>

\* self.state = s at a phase boundary, then on to the next blocking step
Advance(s, next) ==
  /\ state' = s
  /\ trace' = Append(trace, s)
  /\ pc' = next
  /\ UNCHANGED <<local_fingerprint, config_tcp_port, calls, peer_fingerprint, errPhase,
                 everFailed, entry>>

\* SignallingMessage as received from the broker
Messages ==
       [type : {"register_ack"}, success : BOOLEAN]
  \cup [type : {"forward_offer"}, from_fingerprint : Fingerprints, valid_addr : BOOLEAN]
  \cup [type : {"offer_response", "keepalive", "error", "offer"}]

\* what receive_message yields: a message, or an error (stream ended, Close
\* frame, undecodable text frame)
RecvOutcomes == Messages \cup {[type |-> "recv_failed"]}

\* StunClient::local_addr: the address of the client's own socket
local_addr(sock) == [ip |-> "0.0.0.0", port |-> sock.port]

\* variant of into_socket: the puncher gets a socket bound anew
into_socket_Rebound(sock) ==
  [run |-> calls, n |-> udpBinds + 1, port |-> CHOOSE p \in EphemeralPorts : p # sock.port]

\* StunClient::into_socket: hands over the client's socket itself
into_socket(sock) == sock

\* ------------------------------------------------------------ probe codec
\* Byte strings are sequences of 0..255.  A u64 is kept as its four base-65536
\* digits, most significant first (the model's integers are 32 bits wide).

MAGIC == <<80, 78, 80, 76>>
SIGNATURE_LEN == 64

\* u16::to_be_bytes / u16::from_be_bytes
u16_to_be_bytes(n) == <<n \div 256, n % 256>>
u16_from_be_bytes(b) == b[1] * 256 + b[2]

\* u64::to_be_bytes / u64::from_be_bytes
u64_to_be_bytes(n) ==
  u16_to_be_bytes(n[1]) \o u16_to_be_bytes(n[2]) \o u16_to_be_bytes(n[3]) \o u16_to_be_bytes(n[4])
u64_from_be_bytes(b) ==
  <<u16_from_be_bytes(SubSeq(b, 1, 2)), u16_from_be_bytes(SubSeq(b, 3, 4)),
    u16_from_be_bytes(SubSeq(b, 5, 6)), u16_from_be_bytes(SubSeq(b, 7, 8))>>

\* ProbePacket::message_to_sign: b"PINEAPPLE_PROBE" || nonce || tcp_port
message_to_sign(nonce, tcp_port) ==
  <<80, 73, 78, 69, 65, 80, 80, 76, 69, 95, 80, 82, 79, 66, 69>>
    \o u64_to_be_bytes(nonce) \o u16_to_be_bytes(tcp_port)

RECURSIVE SumBytes(_)
SumBytes(b) == IF b = <<>> THEN 0 ELSE (Head(b) + SumBytes(Tail(b))) % 256

\* SigningKey::sign: 64 bytes determined by the key and the message (the
\* Ed25519 computation itself is the library's)
sign(key, message) == [i \in 1..SIGNATURE_LEN |-> (key * i + SumBytes(message)) % 256]

\* ProbePacket::new with the nonce rand::random picked
ProbePacket_new(nonce, tcp_port, signing_key) ==
  [nonce |-> nonce, tcp_port |-> tcp_port,
   signature |-> sign(signing_key, message_to_sign(nonce, tcp_port))]

\* ProbePacket::verify
verify(p, verifying_key) ==
  p.signature = sign(verifying_key, message_to_sign(p.nonce, p.tcp_port))

\* variant of to_bytes: the port is written low byte first
to_bytes_LittleEndianPort(p) ==
  MAGIC \o u64_to_be_bytes(p.nonce) \o <<p.tcp_port % 256, p.tcp_port \div 256>> \o p.signature

\* ProbePacket::to_bytes
to_bytes(p) ==
  MAGIC \o u64_to_be_bytes(p.nonce) \o u16_to_be_bytes(p.tcp_port) \o p.signature

\* variant of from_bytes: the magic is not looked at
from_bytes_NoMagicCheck(d) ==
  IF Len(d) # PROBE_LEN THEN [ok |-> FALSE, err |-> "Invalid probe packet length"]
  ELSE [ok |-> TRUE,
        nonce |-> u64_from_be_bytes(SubSeq(d, 5, 12)),
        tcp_port |-> u16_from_be_bytes(SubSeq(d, 13, 14)),
        signature |-> SubSeq(d, 15, 78)]

\* variant of from_bytes: only too short inputs are refused
from_bytes_AtLeast(d) ==
  IF Len(d) < PROBE_LEN THEN [ok |-> FALSE, err |-> "Invalid probe packet length"]
  ELSE IF SubSeq(d, 1, 4) # MAGIC THEN [ok |-> FALSE, err |-> "Invalid probe packet magic"]
  ELSE [ok |-> TRUE,
        nonce |-> u64_from_be_bytes(SubSeq(d, 5, 12)),
        tcp_port |-> u16_from_be_bytes(SubSeq(d, 13, 14)),
        signature |-> SubSeq(d, 15, 78)]

\* ProbePacket::from_bytes
from_bytes(d) ==
  IF Len(d) # PROBE_LEN THEN [ok |-> FALSE, err |-> "Invalid probe packet length"]
  ELSE IF SubSeq(d, 1, 4) # MAGIC THEN [ok |-> FALSE, err |-> "Invalid probe packet magic"]
  ELSE [ok |-> TRUE,
        nonce |-> u64_from_be_bytes(SubSeq(d, 5, 12)),
        tcp_port |-> u16_from_be_bytes(SubSeq(d, 13, 14)),
        signature |-> SubSeq(d, 15, 78)]

\* signing keys: the peer's, and the one of somebody else
PeerKey == 7
StrangerKey == 11
SigningKeys == {PeerKey, StrangerKey}
\* a signature no key of SigningKeys produces for any message
ForgedSignature == [i \in 1..SIGNATURE_LEN |-> 0]
PeerNonce == <<258, 772, 1286, 1800>>

\* the probe the peer sends, as bytes
PeerProbeBytes(tcp_port) == to_bytes(ProbePacket_new(PeerNonce, tcp_port, PeerKey))

\* datagrams that can reach the UDP socket: bytes and source address
Datagrams ==
       {[data |-> PeerProbeBytes(t), src |-> PeerExternal] : t \in PeerTcpPorts}
  \cup {[data |-> to_bytes([nonce |-> PeerNonce, tcp_port |-> t, signature |-> ForgedSignature]),
         src |-> PeerExternal] : t \in PeerTcpPorts}
  \cup {[data |-> to_bytes(ProbePacket_new(PeerNonce, t, StrangerKey)), src |-> Stranger] :
          t \in PeerTcpPorts}
  \cup {[data |-> SubSeq(PeerProbeBytes(t), 1, PROBE_LEN - 1), src |-> PeerExternal] :
          t \in PeerTcpPorts}
  \cup {[data |-> [PeerProbeBytes(t) EXCEPT ![1] = 88], src |-> PeerExternal] :
          t \in PeerTcpPorts}

\* how long a sleep of punch_hole's idle poll can take (at least IDLE_SLEEP)
SleepDelays == {IDLE_SLEEP, PUNCH_TIMEOUT}

\* how long a sleep of tcp_simultaneous_open's poll can take
TcpSleepDelays == {TCP_POLL_SLEEP, TCP_TIMEOUT}

\* the port a bind to 0.0.0.0:port ends up on
BindPorts(port) == IF port = RANDOM_PORT THEN EphemeralPorts ELSE {port}

\* the local TCP port handed to tcp_simultaneous_open (mod.rs:103)
local_tcp_port == config_tcp_port

\* ------------------------------------------------------------- actions

\* the per-run locals of connect at entry
StartRun(fp) ==
  /\ calls' = calls + 1
  /\ peer_fingerprint' = fp
  /\ state' = "ConnectingSignalling"
  /\ trace' = IF calls = 0 THEN <<state, "ConnectingSignalling">> ELSE <<"ConnectingSignalling">>
  /\ pc' = "signalling"
  /\ errPhase' = ""
  /\ sig' = "none"
  /\ registered' = FALSE
  /\ wsSent' = <<>>
  /\ offer' = NoOffer
  /\ ignored' = 0
  /\ peer_info' = NoPeerInfo
  /\ closeCalled' = FALSE
  /\ udpBinds' = 0
  /\ stunSock' = NoSocket
  /\ stunLocal' = NoAddr
  /\ external_addr' = NoAddr
  /\ punchSock' = NoSocket
  /\ inbox' = <<>>
  /\ probePort' = 0
  /\ bursts' = 0
  /\ sentTo' = {}
  /\ sendFailed' = {}
  /\ lastRead' = NoDatagram
  /\ elapsed' = 0
  /\ sinceSend' = 0
  /\ polls' = 0
  /\ peerTcpPort' = 0
  /\ tcpBound' = 0
  /\ tcpPeer' = NoAddr
  /\ tcpElapsed' = 0
  /\ tcpPolls' = 0
  /\ tcpVia' = "none"
  /\ tcpConnect' = "none"
  /\ UNCHANGED <<local_fingerprint, config_tcp_port, everFailed>>

\* NatTraversal::connect called by a user of the library (lib.rs exports it)
connect ==
  /\ pc \in {"new", "ok", "err"}
  /\ entry \in {"none", "lib"}
  /\ calls < MaxCalls
  /\ \E fp \in Fingerprints :
       /\ entry' = "lib"
       /\ StartRun(fp)
  /\ UNCHANGED sideVars

\* main.rs run_nat_traversal: refuses the own fingerprint, else builds the
\* config with tcp_port 0, constructs the instance and calls connect once
run_nat_traversal ==
  /\ pc = "new"
  /\ everFailed = FALSE
  /\ entry = "none"
  /\ config_tcp_port = RANDOM_PORT
  /\ \E fp \in Fingerprints :
       IF local_fingerprint = fp
       THEN /\ pc' = "exit"
            /\ entry' = "cli"
            /\ peer_fingerprint' = fp
            /\ UNCHANGED <<local_fingerprint, config_tcp_port, state, calls, trace, errPhase,
                           everFailed>>
            /\ UNCHANGED <<sigVars, stunVars, punchVars, inbox, tcpVars>>
       ELSE /\ entry' = "cli"
            /\ StartRun(fp)
  /\ UNCHANGED sideVars

\* Step 1: SignallingClient::connect
signalling_connect ==
  /\ pc = "signalling"
  /\ \/ /\ sig' = "open"
        /\ Advance("Registering", "register")
        /\ UNCHANGED <<registered, wsSent, offer, ignored, peer_info, closeCalled>>
     \/ /\ Fail("signalling")
        /\ UNCHANGED wsSent
  /\ UNCHANGED <<stunVars, punchVars, inbox, tcpVars>>
  /\ UNCHANGED sideVars

\* Step 2: SignallingClient::register
register ==
  /\ pc = "register"
  /\ \/ \* send_message failed
        /\ Fail("register")
        /\ UNCHANGED wsSent
     \/ \E r \in RecvOutcomes :
          /\ wsSent' = Append(wsSent, "register")
          /\ IF r.type = "register_ack" /\ r.success
             THEN /\ registered' = TRUE
                  /\ Advance("StunDiscovery", "stun")
                  /\ UNCHANGED <<sig, offer, ignored, peer_info, closeCalled>>
             ELSE Fail("register")
  /\ UNCHANGED <<stunVars, punchVars, inbox, tcpVars>>
  /\ UNCHANGED sideVars

\* variant of stun_discovery: a failed query is made up for with the local
\* address and the run goes on to the offer
stun_discovery_FallBackToLocal ==
  /\ pc = "stun"
  /\ \/ \* UdpSocket::bind or set_read_timeout failed
        /\ Fail("stun")
        /\ UNCHANGED <<wsSent, stunVars>>
     \/ \E p \in EphemeralPorts :
          /\ stunSock' = [run |-> calls, n |-> udpBinds + 1, port |-> p]
          /\ udpBinds' = udpBinds + 1
          /\ \/ /\ Fail("stun")
                /\ UNCHANGED <<wsSent, stunLocal, external_addr>>
             \/ \E a \in ExternalAddrs :
                  /\ external_addr' = a
                  /\ stunLocal' = local_addr(stunSock')
                  /\ Advance("SendingOffer", "offer")
                  /\ UNCHANGED sigVars
             \/ /\ external_addr' = local_addr(stunSock')
                /\ stunLocal' = local_addr(stunSock')
                /\ errPhase' = "stun"
                /\ everFailed' = TRUE
                /\ state' = "SendingOffer"
                /\ trace' = Append(trace, "SendingOffer")
                /\ pc' = "offer"
                /\ UNCHANGED <<local_fingerprint, config_tcp_port, calls, peer_fingerprint, entry>>
                /\ UNCHANGED sigVars
  /\ UNCHANGED <<punchVars, inbox, tcpVars>>
  /\ UNCHANGED sideVars

\* Step 3: StunClient::new binds the UDP socket, query runs the binding
\* transaction, local_addr is read from the same client
stun_discovery ==
  /\ pc = "stun"
  /\ \/ \* UdpSocket::bind or set_read_timeout failed
        /\ Fail("stun")
        /\ UNCHANGED <<wsSent, stunVars>>
     \/ \E p \in EphemeralPorts :
          /\ stunSock' = [run |-> calls, n |-> udpBinds + 1, port |-> p]
          /\ udpBinds' = udpBinds + 1
          /\ \/ \* send failed, no response within 5 s, or malformed response
                /\ Fail("stun")
                /\ UNCHANGED <<wsSent, stunLocal, external_addr>>
             \/ \E a \in ExternalAddrs :
                  /\ external_addr' = a
                  /\ stunLocal' = local_addr(stunSock')
                  /\ Advance("SendingOffer", "offer")
                  /\ UNCHANGED sigVars
  /\ UNCHANGED <<punchVars, inbox, tcpVars>>
  /\ UNCHANGED sideVars

\* variant of send_offer: the state moves to WaitingForOffer once the offer is out
send_offer_ThenWaiting ==
  /\ pc = "offer"
  /\ \/ /\ Fail("offer")
        /\ UNCHANGED wsSent
     \/ /\ registered
        /\ offer' = [target_fingerprint |-> peer_fingerprint,
                     external_addr |-> external_addr,
                     local_addr |-> stunLocal,
                     fingerprint |-> local_fingerprint]
        /\ wsSent' = Append(wsSent, "offer")
        /\ Advance("WaitingForOffer", "offer_wait")
        /\ UNCHANGED <<sig, registered, ignored, peer_info, closeCalled>>
  /\ UNCHANGED <<stunVars, punchVars, inbox, tcpVars>>
  /\ UNCHANGED sideVars

\* Step 4a: send_offer builds and sends the offer
send_offer ==
  /\ pc = "offer"
  /\ \/ \* "Not registered" or send_message failed
        /\ Fail("offer")
        /\ UNCHANGED wsSent
     \/ /\ registered
        /\ offer' = [target_fingerprint |-> peer_fingerprint,
                     external_addr |-> external_addr,
                     local_addr |-> stunLocal,
                     fingerprint |-> local_fingerprint]
        /\ wsSent' = Append(wsSent, "offer")
        /\ pc' = "offer_wait"
        /\ UNCHANGED <<local_fingerprint, config_tcp_port, state, calls, peer_fingerprint,
                       trace, errPhase, everFailed, entry>>
        /\ UNCHANGED <<sig, registered, ignored, peer_info, closeCalled>>
  /\ UNCHANGED <<stunVars, punchVars, inbox, tcpVars>>
  /\ UNCHANGED sideVars

\* Step 4b: one turn of send_offer's receive loop
send_offer_recv ==
  /\ pc = "offer_wait"
  /\ \E r \in RecvOutcomes :
       CASE r.type = "forward_offer" /\ r.valid_addr ->
              /\ peer_info' = [fingerprint |-> r.from_fingerprint,
                               external_addr |-> PeerExternal,
                               local_addr |-> PeerLocal,
                               nonce |-> 1]
              /\ Advance("UdpHolePunching", "punch")
              /\ UNCHANGED <<sig, registered, wsSent, offer, ignored, closeCalled>>
         [] r.type = "forward_offer" /\ ~r.valid_addr ->
              /\ Fail("offer")
              /\ UNCHANGED wsSent
         [] r.type \in {"error", "recv_failed"} ->
              /\ Fail("offer")
              /\ UNCHANGED wsSent
         [] OTHER ->
              /\ ignored < MaxIgnored
              /\ ignored' = ignored + 1
              /\ UNCHANGED <<orchVars, sig, registered, wsSent, offer, peer_info, closeCalled>>
  /\ UNCHANGED <<stunVars, punchVars, inbox, tcpVars>>
  /\ UNCHANGED sideVars

\* Step 5a: UdpHolePuncher::new takes the STUN client's socket; punch_hole
\* picks the probe's TCP port and starts its clocks
punch_hole_start ==
  /\ pc = "punch"
  /\ \/ \* set_nonblocking failed
        /\ Fail("punch")
        /\ UNCHANGED <<wsSent, punchVars>>
     \/ /\ punchSock' = into_socket(stunSock)
        /\ \/ \* get_local_tcp_port failed
              /\ Fail("punch")
              /\ UNCHANGED <<wsSent, probePort, bursts, sentTo, sendFailed, lastRead, elapsed,
                             sinceSend, polls, peerTcpPort>>
           \/ \E p \in EphemeralPorts :
                /\ probePort' = p
                /\ elapsed' = 0
                /\ sinceSend' = 0
                /\ pc' = "punch_loop"
                /\ UNCHANGED <<local_fingerprint, config_tcp_port, state, calls,
                               peer_fingerprint, trace, errPhase, everFailed, entry>>
                /\ UNCHANGED <<sigVars, bursts, sentTo, sendFailed, lastRead, polls, peerTcpPort>>
  /\ UNCHANGED <<stunVars, inbox, tcpVars>>
  /\ UNCHANGED sideVars

\* punch_hole returns: its clocks and the outcome of its sends go out of scope,
\* and the socket is not read again in this run, so what is still queued on it
\* is never seen
PunchHoleReturns ==
  /\ elapsed' = 0
  /\ sinceSend' = 0
  /\ polls' = 0
  /\ inbox' = <<>>

\* variant of punch_hole_timeout: the deadline is measured from the last burst
punch_hole_timeout_SinceLastSend ==
  /\ pc = "punch_loop"
  /\ sinceSend > PUNCH_TIMEOUT
  /\ Fail("punch")
  /\ PunchHoleReturns
  /\ sendFailed' = {}
  /\ UNCHANGED <<punchSock, probePort, bursts, sentTo, lastRead, peerTcpPort>>
  /\ UNCHANGED <<wsSent, stunVars, tcpVars>>
  /\ UNCHANGED sideVars

\* Step 5b: the deadline check at the top of punch_hole's loop
punch_hole_timeout ==
  /\ pc = "punch_loop"
  /\ elapsed > PUNCH_TIMEOUT
  /\ Fail("punch")
  /\ PunchHoleReturns
  /\ sendFailed' = {}
  /\ UNCHANGED <<punchSock, probePort, bursts, sentTo, lastRead, peerTcpPort>>
  /\ UNCHANGED <<wsSent, stunVars, tcpVars>>
  /\ UNCHANGED sideVars

\* tcp_simultaneous_open returns the stream: its clock goes out of scope
TcpOpenReturns ==
  /\ tcpElapsed' = 0
  /\ tcpPolls' = 0

\* the burst of one loop turn: due only when last_send is older than the interval
BurstDue == sinceSend > SEND_INTERVAL

\* the candidate addresses handed to punch_hole (mod.rs:93)
peer_addrs == <<peer_info.external_addr, peer_info.local_addr>>

\* variant of BurstTargets: the burst ends at the first address whose send fails
BurstTargets_StopAtError(addrs, failing) ==
  {addrs[i] : i \in {j \in 1..Len(addrs) : \A k \in 1..(j - 1) : addrs[k] \notin failing}}

\* the addresses one burst calls send_to for, given the set of addresses
\* whose send fails: the result of send_to is dropped, so all of them
BurstTargets(addrs, failing) == {addrs[i] : i \in 1..Len(addrs)}

\* variant of accept_probe: the probe must verify under the peer's key
accept_probe_Verified(p) == verify(p, PeerKey)

\* what punch_hole asks of a parsed probe before returning its port: nothing
\* (verify is not called, the sender's address is not looked at)
accept_probe(p) == TRUE

\* One turn of punch_hole's loop: burst when due, then one recv_from.  busy
\* is how long a turn without sleep can take, sleeps how long one with the
\* 10 ms sleep can take.
LoopTurn(busy, sleeps) ==
  /\ pc = "punch_loop"
  /\ elapsed <= PUNCH_TIMEOUT
  /\ bursts' = IF BurstDue THEN bursts + 1 ELSE bursts
  /\ \/ \* a datagram that parses: return its tcp_port
        /\ inbox # <<>>
        /\ from_bytes(Head(inbox).data).ok
        /\ accept_probe(from_bytes(Head(inbox).data))
        /\ lastRead' = Head(inbox)
        /\ peerTcpPort' = from_bytes(Head(inbox).data).tcp_port
        /\ Advance("TcpConnecting", "tcp")
        /\ PunchHoleReturns
        /\ UNCHANGED sigVars
     \/ \* a datagram that does not parse, or a socket error: next turn at once
        /\ \/ /\ inbox # <<>>
              /\ IF from_bytes(Head(inbox).data).ok
                 THEN ~accept_probe(from_bytes(Head(inbox).data))
                 ELSE TRUE
              /\ lastRead' = Head(inbox)
              /\ inbox' = Tail(inbox)
           \/ UNCHANGED <<inbox, lastRead>>
        /\ \E dt \in busy :
             /\ elapsed' = Min(elapsed + dt, PUNCH_TIMEOUT + IDLE_SLEEP)
             /\ sinceSend' = Min((IF BurstDue THEN 0 ELSE sinceSend) + dt,
                                 SEND_INTERVAL + IDLE_SLEEP)
        /\ polls' = polls + 1
        /\ UNCHANGED <<orchVars, sigVars, peerTcpPort>>
     \/ \* WouldBlock: sleep
        /\ inbox = <<>>
        /\ \E dt \in sleeps :
             /\ elapsed' = Min(elapsed + dt, PUNCH_TIMEOUT + IDLE_SLEEP)
             /\ sinceSend' = Min((IF BurstDue THEN 0 ELSE sinceSend) + dt,
                                 SEND_INTERVAL + IDLE_SLEEP)
        /\ polls' = polls + 1
        /\ UNCHANGED <<orchVars, sigVars, inbox, lastRead, peerTcpPort>>
  /\ \* the burst made before the recv_from of this turn
     \E failing \in (IF BurstDue THEN SUBSET {peer_addrs[1], peer_addrs[2]} ELSE {sendFailed}) :
       /\ sentTo' = IF BurstDue THEN BurstTargets(peer_addrs, failing) ELSE sentTo
       /\ sendFailed' = IF pc' = "punch_loop" THEN failing ELSE {}
  /\ UNCHANGED <<punchSock, probePort, stunVars, tcpVars>>
  /\ UNCHANGED sideVars

\* Step 5c: a turn of the loop on the millisecond clock; a turn that does not
\* sleep takes no measurable time
punch_hole_poll ==
  /\ polls < MaxPolls
  /\ LoopTurn({0}, SleepDelays)

\* a datagram reaches the UDP socket.  The socket is bound since STUN
\* discovery and nothing reads it between the STUN response and punch_hole's
\* first recv_from, so whatever arrived in between is waiting when pc = "punch".
deliver ==
  /\ pc \in {"punch", "punch_loop"}
  /\ Len(inbox) < MaxInbox
  /\ \E d \in Datagrams : inbox' = Append(inbox, d)
  /\ UNCHANGED <<orchVars, sigVars, stunVars, punchVars, tcpVars>>
  /\ UNCHANGED sideVars

\* variant of tcp_direct: the port-reusing socket is bound before the direct attempt
tcp_direct_BindFirst ==
  /\ pc = "tcp"
  /\ tcpPeer' = [ip |-> peer_info.external_addr.ip, port |-> peerTcpPort]
  /\ \E p \in BindPorts(local_tcp_port) : tcpBound' = p
  /\ \/ /\ tcpVia' = "direct"
        /\ Advance("Connected", "close")
        /\ UNCHANGED <<tcpElapsed, tcpPolls, tcpConnect>>
     \/ /\ \E dt \in {0, DIRECT_TIMEOUT} : tcpElapsed' = dt
        /\ pc' = "tcp_bind"
        /\ UNCHANGED <<local_fingerprint, config_tcp_port, state, calls, peer_fingerprint,
                       trace, errPhase, everFailed, entry>>
        /\ UNCHANGED <<tcpPolls, tcpVia, tcpConnect>>
  /\ lastRead' = NoDatagram
  /\ UNCHANGED <<punchSock, probePort, bursts, sentTo, sendFailed, elapsed, sinceSend, polls,
                 peerTcpPort>>
  /\ UNCHANGED <<sigVars, stunVars, inbox>>
  /\ UNCHANGED sideVars

\* Step 6a: tcp_simultaneous_open, strategy 1: direct connect
tcp_direct ==
  /\ pc = "tcp"
  /\ tcpPeer' = [ip |-> peer_info.external_addr.ip, port |-> peerTcpPort]
  /\ \/ /\ tcpVia' = "direct"
        /\ Advance("Connected", "close")
        /\ UNCHANGED <<tcpBound, tcpElapsed, tcpPolls, tcpConnect>>
     \/ /\ \E dt \in {0, DIRECT_TIMEOUT} : tcpElapsed' = dt
        /\ pc' = "tcp_bind"
        /\ UNCHANGED <<local_fingerprint, config_tcp_port, state, calls, peer_fingerprint,
                       trace, errPhase, everFailed, entry>>
        /\ UNCHANGED <<tcpBound, tcpPolls, tcpVia, tcpConnect>>
  /\ lastRead' = NoDatagram
  /\ UNCHANGED <<punchSock, probePort, bursts, sentTo, sendFailed, elapsed, sinceSend, polls,
                 peerTcpPort>>
  /\ UNCHANGED <<sigVars, stunVars, inbox>>
  /\ UNCHANGED sideVars

\* what connect on the non-blocking socket reports: Ok, or the error of the
\* platform's "in progress" indication (WSAEWOULDBLOCK on Windows,
\* EINPROGRESS on Unix), or a failure such as ECONNREFUSED
ConnectResults == {"Ok", "WouldBlock", "InProgress", "Refused"}

\* io::Error::kind() of such an error: only EWOULDBLOCK / WSAEWOULDBLOCK
\* decode to ErrorKind::WouldBlock
kind(r) == IF r = "WouldBlock" THEN "WouldBlock" ELSE "Other"

\* Step 6b: strategy 2: port-reusing socket bound to local_port, non-blocking connect
tcp_bind ==
  /\ pc = "tcp_bind"
  /\ \/ \* Socket::new, set_reuse_address, set_reuse_port, bind or set_nonblocking failed
        /\ Fail("tcp")
        /\ UNCHANGED <<wsSent, tcpBound, tcpVia, tcpElapsed, tcpPolls, tcpConnect>>
     \/ \E p \in BindPorts(local_tcp_port), r \in ConnectResults :
          /\ tcpBound' = p
          /\ tcpConnect' = r
          /\ CASE r = "Ok" -> \* connected immediately
                     /\ \/ /\ tcpVia' = "immediate"
                           /\ Advance("Connected", "close")
                           /\ UNCHANGED sigVars
                        \/ \* set_nonblocking(false) failed
                           /\ Fail("tcp")
                           /\ UNCHANGED <<wsSent, tcpVia>>
                     /\ TcpOpenReturns
              [] kind(r) = "WouldBlock" -> \* taken as a connect in progress
                     /\ pc' = "tcp_poll"
                     /\ UNCHANGED <<local_fingerprint, config_tcp_port, state, calls,
                                    peer_fingerprint, trace, errPhase, everFailed, entry>>
                     /\ UNCHANGED <<sigVars, tcpVia, tcpElapsed, tcpPolls>>
              [] OTHER -> \* every other error of connect
                     /\ Fail("tcp")
                     /\ UNCHANGED <<wsSent, tcpVia, tcpElapsed, tcpPolls>>
  /\ UNCHANGED <<tcpPeer, stunVars, punchVars, inbox>>
  /\ UNCHANGED sideVars

\* Step 6c: the deadline check at the top of the wait loop
tcp_timeout ==
  /\ pc = "tcp_poll"
  /\ tcpElapsed > TCP_TIMEOUT
  /\ Fail("tcp")
  /\ UNCHANGED <<wsSent, stunVars, punchVars, inbox, tcpVars>>
  /\ UNCHANGED sideVars

\* One turn of the wait loop: peer_addr() tells whether the handshake is
\* done; sleeps is how long the sleep of 100 ms can take
TcpLoopTurn(sleeps) ==
  /\ pc = "tcp_poll"
  /\ tcpElapsed <= TCP_TIMEOUT
  /\ \/ /\ tcpVia' = "polled"
        /\ Advance("Connected", "close")
        /\ TcpOpenReturns
        /\ UNCHANGED sigVars
     \/ \* set_nonblocking(false) failed after the handshake
        /\ Fail("tcp")
        /\ UNCHANGED <<wsSent, tcpElapsed, tcpPolls, tcpVia>>
     \/ /\ \E dt \in sleeps :
             tcpElapsed' = Min(tcpElapsed + dt, TCP_TIMEOUT + TCP_POLL_SLEEP)
        /\ tcpPolls' = tcpPolls + 1
        /\ UNCHANGED <<orchVars, sigVars, tcpVia>>
  /\ UNCHANGED <<tcpBound, tcpPeer, tcpConnect, stunVars, punchVars, inbox>>
  /\ UNCHANGED sideVars

\* Step 6d: a turn of the wait loop on the millisecond clock
tcp_poll ==
  /\ tcpPolls < MaxTcpPolls
  /\ TcpLoopTurn(TcpSleepDelays)

\* variant of cleanup: the stream is returned without closing the signalling client
cleanup_NoClose ==
  /\ pc = "close"
  /\ pc' = "ok"
  /\ UNCHANGED <<local_fingerprint, config_tcp_port, state, calls, peer_fingerprint, trace,
                 errPhase, everFailed, entry>>
  /\ UNCHANGED <<sigVars, stunVars, punchVars, inbox, tcpVars>>
  /\ UNCHANGED sideVars

\* Step 7: signalling.close() and return of the stream.  self.state was set to
\* Connected before; close consumes the client, so the connection is gone
\* afterwards whether or not the close handshake worked.
cleanup ==
  /\ pc = "close"
  /\ closeCalled' = TRUE
  /\ \/ /\ sig' = "closed"
        /\ pc' = "ok"
        /\ UNCHANGED <<errPhase, everFailed>>
     \/ /\ sig' = "dropped"
        /\ pc' = "err"
        /\ errPhase' = "close"
        /\ everFailed' = TRUE
  /\ UNCHANGED <<local_fingerprint, config_tcp_port, state, calls, peer_fingerprint, trace, entry>>
  /\ UNCHANGED <<registered, wsSent, offer, ignored, peer_info>>
  /\ UNCHANGED <<stunVars, punchVars, inbox, tcpVars>>
  /\ UNCHANGED sideVars

Next ==
  \/ connect
  \/ run_nat_traversal
  \/ signalling_connect
  \/ register
  \/ stun_discovery
  \/ send_offer
  \/ send_offer_recv
  \/ punch_hole_start
  \/ punch_hole_timeout
  \/ punch_hole_poll
  \/ deliver
  \/ tcp_direct
  \/ tcp_bind
  \/ tcp_timeout
  \/ tcp_poll
  \/ cleanup

Spec == Init /\ [][Next]_vars

\* ------------------------------------------------ punch_hole to its end
\* punch_hole followed from the entry to its loop until it returns, on a
\* clock coarse enough to reach the deadline: every turn of the loop, sleeping
\* or not, takes one of TurnDelays.

TurnDelays == {PUNCH_TIMEOUT \div PunchTurns, PUNCH_TIMEOUT}

\* connect("bob") on alice's fresh instance, arrived at punch_hole's loop
PunchInit ==
  /\ local_fingerprint = "alice"
  /\ config_tcp_port = RANDOM_PORT
  /\ state = "UdpHolePunching"
  /\ pc = "punch_loop"
  /\ calls = 1
  /\ peer_fingerprint = "bob"
  /\ trace = <<"Idle", "ConnectingSignalling", "Registering", "StunDiscovery", "SendingOffer",
               "UdpHolePunching">>
  /\ errPhase = ""
  /\ everFailed = FALSE
  /\ entry = "cli"
  /\ sig = "open"
  /\ registered = TRUE
  /\ wsSent = <<"register", "offer">>
  /\ \E p \in EphemeralPorts, a \in ExternalAddrs :
       /\ stunSock = [run |-> 1, n |-> 1, port |-> p]
       /\ stunLocal = local_addr(stunSock)
       /\ external_addr = a
       /\ punchSock = into_socket(stunSock)
       /\ offer = [target_fingerprint |-> "bob", external_addr |-> a,
                   local_addr |-> stunLocal, fingerprint |-> "alice"]
  /\ ignored = 0
  /\ peer_info = [fingerprint |-> "bob", external_addr |-> PeerExternal,
                  local_addr |-> PeerLocal, nonce |-> 1]
  /\ closeCalled = FALSE
  /\ udpBinds = 1
  /\ inbox \in {<<>>} \cup {<<d>> : d \in Datagrams}
  /\ probePort \in EphemeralPorts
  /\ bursts = 0
  /\ sentTo = {}
  /\ sendFailed = {}
  /\ lastRead = NoDatagram
  /\ elapsed = 0
  /\ sinceSend = 0
  /\ polls = 0
  /\ peerTcpPort = 0
  /\ tcpBound = 0
  /\ tcpPeer = NoAddr
  /\ tcpElapsed = 0
  /\ tcpPolls = 0
  /\ tcpVia = "none"
  /\ tcpConnect = "none"
  /\ NoCall
  /\ NoPair
  /\ NoClient

\* a turn of the loop on the coarse clock
punch_hole_turn == LoopTurn(TurnDelays, TurnDelays)

PunchNext ==
  \/ punch_hole_turn
  \/ punch_hole_timeout
  \/ deliver

\* the task running punch_hole is polled again whenever it can go on: the
\* sleep of 10 ms ends, and the socket is non-blocking
PunchSpec ==
  PunchInit /\ [][PunchNext]_vars /\ WF_vars(punch_hole_turn) /\ WF_vars(punch_hole_timeout)

\* ------------------------------------------ tcp_simultaneous_open alone
\* connect("bob") on alice's instance at the call of tcp_simultaneous_open,
\* followed until it returns; the wait loop runs on a coarse clock.

TcpTurnDelays == {TCP_TIMEOUT \div TcpTurns, TCP_TIMEOUT}

\* punch_hole has just returned the port of a probe
TcpInit ==
  /\ local_fingerprint = "alice"
  /\ config_tcp_port \in ConfigTcpPorts
  /\ state = "TcpConnecting"
  /\ pc = "tcp"
  /\ calls = 1
  /\ peer_fingerprint = "bob"
  /\ trace = <<"Idle", "ConnectingSignalling", "Registering", "StunDiscovery", "SendingOffer",
               "UdpHolePunching", "TcpConnecting">>
  /\ errPhase = ""
  /\ everFailed = FALSE
  /\ entry \in {"cli", "lib"}
  /\ sig = "open"
  /\ registered = TRUE
  /\ wsSent = <<"register", "offer">>
  /\ \E p \in EphemeralPorts, a \in ExternalAddrs :
       /\ stunSock = [run |-> 1, n |-> 1, port |-> p]
       /\ stunLocal = local_addr(stunSock)
       /\ external_addr = a
       /\ punchSock = into_socket(stunSock)
       /\ offer = [target_fingerprint |-> "bob", external_addr |-> a,
                   local_addr |-> stunLocal, fingerprint |-> "alice"]
  /\ probePort \in EphemeralPorts
  /\ ignored = 0
  /\ peer_info = [fingerprint |-> "bob", external_addr |-> PeerExternal,
                  local_addr |-> PeerLocal, nonce |-> 1]
  /\ closeCalled = FALSE
  /\ udpBinds = 1
  /\ inbox = <<>>
  /\ bursts \in {0, 1}
  /\ sentTo = IF bursts = 0 THEN {} ELSE {PeerExternal, PeerLocal}
  /\ sendFailed = {}
  /\ \E d \in Datagrams :
       /\ from_bytes(d.data).ok
       /\ lastRead = d
       /\ peerTcpPort = from_bytes(d.data).tcp_port
  /\ elapsed = 0
  /\ sinceSend = 0
  /\ polls = 0
  /\ tcpBound = 0
  /\ tcpPeer = NoAddr
  /\ tcpElapsed = 0
  /\ tcpPolls = 0
  /\ tcpVia = "none"
  /\ tcpConnect = "none"
  /\ NoCall
  /\ NoPair
  /\ NoClient

\* a turn of the wait loop on the coarse clock
tcp_turn == TcpLoopTurn(TcpTurnDelays)

TcpNext ==
  \/ tcp_direct
  \/ tcp_bind
  \/ tcp_timeout
  \/ tcp_turn

\* the task running tcp_simultaneous_open is polled again whenever it can go
\* on: connect_timeout returns within its 500 ms, the sleep of 100 ms ends
TcpSpec ==
  /\ TcpInit
  /\ [][TcpNext]_vars
  /\ WF_vars(tcp_direct) /\ WF_vars(tcp_bind) /\ WF_vars(tcp_timeout) /\ WF_vars(tcp_turn)

\* ------------------------------------------------- the probe codec alone
\* ProbePacket::to_bytes and ProbePacket::from_bytes applied to inputs of
\* their whole domain, outside punch_hole.

NonceSamples == {<<0, 0, 0, 0>>, <<0, 0, 0, 1>>, PeerNonce, <<65535, 65535, 65535, 65535>>}
PortSamples == {0, 1, 255, 256, 40001, 65535}
Probes ==
       {ProbePacket_new(n, t, k) : n \in NonceSamples, t \in PortSamples, k \in SigningKeys}
  \cup [nonce : NonceSamples, tcp_port : PortSamples,
        signature : {ForgedSignature, [i \in 1..SIGNATURE_LEN |-> 255]}]

\* byte strings handed to from_bytes that no to_bytes produced: other lengths,
\* other magics, and 78 bytes of anything behind a good magic
ByteInputs ==
  LET good == PeerProbeBytes(40001)
  IN    {SubSeq(good, 1, k) : k \in {0, 1, 3, 4, 13, 14, 77}}
   \cup {good \o <<0>>, good \o good}
   \cup {[good EXCEPT ![i] = b] : i \in 1..4, b \in {0, 112, 255}}
   \cup {MAGIC \o [i \in 1..(PROBE_LEN - 4) |-> b] : b \in {0, 255}}
   \cup {[i \in 1..PROBE_LEN |-> b] : b \in {0, 80}}

CodecInit ==
  /\ NatTraversal_new
  /\ NoPair
  /\ NoClient
  /\ transaction_id = <<>>
  /\ response = NoResponse
  /\ result = NoResult
  /\ \/ probe \in Probes /\ data = <<>> /\ step = "to_bytes"
     \/ probe = NoProbe /\ data \in ByteInputs /\ step = "from_bytes"

\* the sender's side: the probe is serialised
to_bytes_call ==
  /\ step = "to_bytes"
  /\ data' = to_bytes(probe)
  /\ step' = "from_bytes"
  /\ UNCHANGED <<probe, transaction_id, response, result>>
  /\ UNCHANGED <<orchVars, sigVars, stunVars, punchVars, inbox, tcpVars, pairVars, callVars>>

\* the receiver's side: the bytes are parsed
from_bytes_call ==
  /\ step = "from_bytes"
  /\ result' = from_bytes(data)
  /\ step' = "parsed"
  /\ UNCHANGED <<probe, data, transaction_id, response>>
  /\ UNCHANGED <<orchVars, sigVars, stunVars, punchVars, inbox, tcpVars, pairVars, callVars>>

CodecNext ==
  \/ to_bytes_call
  \/ from_bytes_call

CodecSpec == CodecInit /\ [][CodecNext]_vars

\* ---------------------------------------------------------- STUN codec
\* A u32 is kept as its two base-65536 digits, most significant first.

STUN_BINDING_REQUEST == 1
STUN_BINDING_RESPONSE == 257
STUN_MAGIC_COOKIE == <<8466, 42050>>
ATTR_MAPPED_ADDRESS == 1
ATTR_XOR_MAPPED_ADDRESS == 32
STUN_HEADER_LEN == 20

\* a ^ b on values of the given number of bits
RECURSIVE bitxor(_, _, _)
bitxor(a, b, bits) ==
  IF bits = 0 THEN 0
  ELSE (((a % 2) + (b % 2)) % 2) + 2 * bitxor(a \div 2, b \div 2, bits - 1)

\* u32::to_be_bytes / u32::from_be_bytes / ^ on u32
u32_to_be_bytes(n) == u16_to_be_bytes(n[1]) \o u16_to_be_bytes(n[2])
u32_from_be_bytes(b) == <<u16_from_be_bytes(SubSeq(b, 1, 2)), u16_from_be_bytes(SubSeq(b, 3, 4))>>
u32_xor(a, b) == <<bitxor(a[1], b[1], 16), bitxor(a[2], b[2], 16)>>

\* StunClient::build_binding_request
build_binding_request(txid) ==
  u16_to_be_bytes(STUN_BINDING_REQUEST) \o u16_to_be_bytes(0)
    \o u32_to_be_bytes(STUN_MAGIC_COOKIE) \o txid

StunErr(msg) == [ok |-> FALSE, err |-> msg]
StunResponse(ip, port) == [ok |-> TRUE, external_ip |-> ip, external_port |-> port]

\* variant of parse_xor_mapped_address: the port is xored with the low half of the cookie
parse_xor_mapped_address_LowCookie(d, txid) ==
  IF Len(d) < 8 THEN StunErr("XOR-MAPPED-ADDRESS too short")
  ELSE LET family == d[2]
           port == bitxor(u16_from_be_bytes(<<d[3], d[4]>>), STUN_MAGIC_COOKIE[2], 16)
       IN CASE family = 1 ->
                 StunResponse(u32_to_be_bytes(u32_xor(u32_from_be_bytes(SubSeq(d, 5, 8)),
                                                      STUN_MAGIC_COOKIE)), port)
            [] family = 2 ->
                 IF Len(d) < 20 THEN StunErr("Invalid IPv6 address length")
                 ELSE LET xor_key == u32_to_be_bytes(STUN_MAGIC_COOKIE) \o txid
                      IN StunResponse([i \in 1..16 |-> bitxor(d[4 + i], xor_key[i], 8)], port)
            [] OTHER -> StunErr("Unknown address family")

\* StunClient::parse_xor_mapped_address
parse_xor_mapped_address(d, txid) ==
  IF Len(d) < 8 THEN StunErr("XOR-MAPPED-ADDRESS too short")
  ELSE LET family == d[2]
           port == bitxor(u16_from_be_bytes(<<d[3], d[4]>>), STUN_MAGIC_COOKIE[1], 16)
       IN CASE family = 1 ->
                 StunResponse(u32_to_be_bytes(u32_xor(u32_from_be_bytes(SubSeq(d, 5, 8)),
                                                      STUN_MAGIC_COOKIE)), port)
            [] family = 2 ->
                 IF Len(d) < 20 THEN StunErr("Invalid IPv6 address length")
                 ELSE LET xor_key == u32_to_be_bytes(STUN_MAGIC_COOKIE) \o txid
                      IN StunResponse([i \in 1..16 |-> bitxor(d[4 + i], xor_key[i], 8)], port)
            [] OTHER -> StunErr("Unknown address family")

\* StunClient::parse_mapped_address
parse_mapped_address(d) ==
  IF Len(d) < 8 THEN StunErr("MAPPED-ADDRESS too short")
  ELSE LET family == d[2]
           port == u16_from_be_bytes(<<d[3], d[4]>>)
       IN CASE family = 1 -> StunResponse(SubSeq(d, 5, 8), port)
            [] family = 2 ->
                 IF Len(d) < 20 THEN StunErr("Invalid IPv6 address length")
                 ELSE StunResponse(SubSeq(d, 5, 20), port)
            [] OTHER -> StunErr("Unknown address family")

\* the attribute loop of parse_binding_response, from the 0-based offset on
RECURSIVE parse_attributes(_, _, _, _)
parse_attributes(d, txid, offset, msg_len) ==
  IF offset >= STUN_HEADER_LEN + msg_len THEN StunErr("No address attribute found in STUN response")
  ELSE IF offset + 4 > Len(d) THEN StunErr("No address attribute found in STUN response")
  ELSE LET attr_type == u16_from_be_bytes(<<d[offset + 1], d[offset + 2]>>)
           attr_len == u16_from_be_bytes(<<d[offset + 3], d[offset + 4]>>)
           start == offset + 4
       IN IF start + attr_len > Len(d)
          THEN StunErr("No address attribute found in STUN response")
          ELSE LET attr_data == SubSeq(d, start + 1, start + attr_len)
               IN IF attr_type = ATTR_XOR_MAPPED_ADDRESS
                  THEN parse_xor_mapped_address(attr_data, txid)
                  ELSE IF attr_type = ATTR_MAPPED_ADDRESS
                  THEN parse_mapped_address(attr_data)
                  ELSE parse_attributes(d, txid, start + ((attr_len + 3) \div 4) * 4, msg_len)

\* variant of parse_binding_response: the transaction ID is not compared
parse_binding_response_AnyTransaction(d, expected_transaction_id) ==
  IF Len(d) < STUN_HEADER_LEN THEN StunErr("STUN response too short")
  ELSE IF u16_from_be_bytes(<<d[1], d[2]>>) # STUN_BINDING_RESPONSE
  THEN StunErr("Invalid STUN response type")
  ELSE IF u32_from_be_bytes(SubSeq(d, 5, 8)) # STUN_MAGIC_COOKIE
  THEN StunErr("Invalid magic cookie")
  ELSE IF Len(d) < STUN_HEADER_LEN + u16_from_be_bytes(<<d[3], d[4]>>)
  THEN StunErr("STUN response truncated")
  ELSE parse_attributes(d, expected_transaction_id, STUN_HEADER_LEN,
                        u16_from_be_bytes(<<d[3], d[4]>>))

\* StunClient::parse_binding_response
parse_binding_response(d, expected_transaction_id) ==
  IF Len(d) < STUN_HEADER_LEN THEN StunErr("STUN response too short")
  ELSE IF u16_from_be_bytes(<<d[1], d[2]>>) # STUN_BINDING_RESPONSE
  THEN StunErr("Invalid STUN response type")
  ELSE IF u32_from_be_bytes(SubSeq(d, 5, 8)) # STUN_MAGIC_COOKIE
  THEN StunErr("Invalid magic cookie")
  ELSE IF SubSeq(d, 9, 20) # expected_transaction_id
  THEN StunErr("Transaction ID mismatch")
  ELSE IF Len(d) < STUN_HEADER_LEN + u16_from_be_bytes(<<d[3], d[4]>>)
  THEN StunErr("STUN response truncated")
  ELSE parse_attributes(d, expected_transaction_id, STUN_HEADER_LEN,
                        u16_from_be_bytes(<<d[3], d[4]>>))

\* variant of address_reads: the IPv6 branch copies its 16 bytes unchecked
address_reads_Ipv6Unchecked(d) ==
  IF Len(d) < 8 THEN {}
  ELSE {1, 2, 3} \cup (CASE d[2] = 1 -> 4..7
                         [] d[2] = 2 -> 4..19
                         [] OTHER -> {})

\* the 0-based indices of the attribute value that parse_xor_mapped_address
\* and parse_mapped_address read; both decoders index the same positions
address_reads(d) ==
  IF Len(d) < 8 THEN {}
  ELSE {1, 2, 3} \cup (CASE d[2] = 1 -> 4..7
                         [] d[2] = 2 -> IF Len(d) < 20 THEN {} ELSE 4..19
                         [] OTHER -> {})

\* the iterations of the attribute loop of parse_binding_response from the
\* 0-based offset on: the offset each one starts at, the indices of the
\* datagram it reads for the attribute header, and, once the value is sliced
\* out as attr_data, the slice's bounds and the indices a decoder reads in it
RECURSIVE attribute_reads(_, _, _)
attribute_reads(d, offset, msg_len) ==
  IF offset >= STUN_HEADER_LEN + msg_len \/ offset + 4 > Len(d) THEN <<>>
  ELSE LET attr_type == u16_from_be_bytes(<<d[offset + 1], d[offset + 2]>>)
           attr_len == u16_from_be_bytes(<<d[offset + 3], d[offset + 4]>>)
           start == offset + 4
           head == [offset |-> offset, reads |-> offset..(offset + 3),
                    sliced |-> FALSE, from |-> start, to |-> start, value_reads |-> {}]
       IN IF start + attr_len > Len(d) THEN <<head>>
          ELSE IF attr_type \in {ATTR_XOR_MAPPED_ADDRESS, ATTR_MAPPED_ADDRESS}
          THEN <<[head EXCEPT !.sliced = TRUE, !.to = start + attr_len,
                              !.value_reads =
                                address_reads(SubSeq(d, start + 1, start + attr_len))]>>
          ELSE <<[head EXCEPT !.sliced = TRUE, !.to = start + attr_len]>>
                 \o attribute_reads(d, start + ((attr_len + 3) \div 4) * 4, msg_len)

\* the 0-based indices of the datagram that the header checks of
\* parse_binding_response read, each check reached only past the earlier ones
header_reads(d, expected_transaction_id) ==
  IF Len(d) < STUN_HEADER_LEN THEN {}
  ELSE {0, 1} \cup
    (IF u16_from_be_bytes(<<d[1], d[2]>>) # STUN_BINDING_RESPONSE THEN {}
     ELSE 4..7 \cup
       (IF u32_from_be_bytes(SubSeq(d, 5, 8)) # STUN_MAGIC_COOKIE THEN {}
        ELSE 8..19 \cup
          (IF SubSeq(d, 9, 20) # expected_transaction_id THEN {} ELSE {2, 3})))

\* ------------------------------------------- the STUN transaction alone
\* StunClient::query against a server that answers with one datagram.  The
\* datagram is built here as RFC 5389 lays it out, byte by byte, from a
\* description of what the server (or whoever answers) puts into it.

COOKIE_BYTES == <<33, 18, 164, 66>>
ATTR_SOFTWARE == 32802
MappedAddr == [ip |-> <<198, 51, 100, 1>>, port |-> 4660]
Ip6 == [i \in 1..16 |-> 16 * i]

TransactionIds ==
  {[i \in 1..12 |-> 0], [i \in 1..12 |-> i], [i \in 1..12 |-> 255]}

XorAddrs ==
  [ip : {<<203, 0, 113, 7>>, <<0, 0, 0, 0>>, <<255, 255, 255, 255>>, <<33, 18, 164, 66>>},
   port : {0, 61000, 65535, 8466}]

Layouts ==
  {"X", "M", "XM", "MX", "SX", "SM", "S", "none", "Xfamily", "Xshort", "X6", "MfamilyX",
   "Xlong", "SXhead", "MXlong", "MXfamily", "Xbeyond", "SXafter",
   "X6short", "Mshort", "M6short"}

Responses ==
       [msg_type : {STUN_BINDING_RESPONSE}, cookie : {COOKIE_BYTES}, tx : {"same"},
        layout : Layouts, xaddr : XorAddrs, cut : {0, 1}]
  \cup [msg_type : {STUN_BINDING_RESPONSE, STUN_BINDING_REQUEST, 273},
        cookie : {COOKIE_BYTES, <<33, 18, 164, 67>>}, tx : {"same", "other"},
        layout : {"X", "M"}, xaddr : {[ip |-> <<203, 0, 113, 7>>, port |-> 61000]}, cut : {0}]

RECURSIVE Zeros(_)
Zeros(n) == IF n = 0 THEN <<>> ELSE <<0>> \o Zeros(n - 1)

\* one attribute: type, length, value, padding to a multiple of four
Attribute(type, value) ==
  u16_to_be_bytes(type) \o u16_to_be_bytes(Len(value)) \o value
    \o Zeros((4 - (Len(value) % 4)) % 4)

XorValue(family, a) ==
  <<0, family>> \o u16_to_be_bytes(bitxor(a.port, 8466, 16))
    \o [i \in 1..4 |-> bitxor(a.ip[i], COOKIE_BYTES[i], 8)]
XorValue6(a, txid) ==
  <<0, 2>> \o u16_to_be_bytes(bitxor(a.port, 8466, 16))
    \o [i \in 1..16 |-> bitxor(Ip6[i], (COOKIE_BYTES \o txid)[i], 8)]
MappedValue(family, a) == <<0, family>> \o u16_to_be_bytes(a.port) \o a.ip

AttributesOf(r, txid) ==
  LET X == Attribute(ATTR_XOR_MAPPED_ADDRESS, XorValue(1, r.xaddr))
      M == Attribute(ATTR_MAPPED_ADDRESS, MappedValue(1, MappedAddr))
      S == Attribute(ATTR_SOFTWARE, <<112, 110, 112>>)
  IN CASE r.layout = "X" -> X
       [] r.layout = "M" -> M
       [] r.layout = "XM" -> X \o M
       [] r.layout = "MX" -> M \o X
       [] r.layout = "SX" -> S \o X
       [] r.layout = "SM" -> S \o M
       [] r.layout = "S" -> S
       [] r.layout = "none" -> <<>>
       [] r.layout = "Xfamily" -> Attribute(ATTR_XOR_MAPPED_ADDRESS, XorValue(3, r.xaddr))
       [] r.layout = "Xshort" -> Attribute(ATTR_XOR_MAPPED_ADDRESS, <<0, 1, 0, 0>>)
       [] r.layout = "X6" -> Attribute(ATTR_XOR_MAPPED_ADDRESS, XorValue6(r.xaddr, txid))
       [] r.layout = "MfamilyX" ->
            Attribute(ATTR_MAPPED_ADDRESS, MappedValue(3, MappedAddr)) \o X
       [] r.layout = "Xlong" ->
            u16_to_be_bytes(ATTR_XOR_MAPPED_ADDRESS) \o u16_to_be_bytes(12)
              \o XorValue(1, r.xaddr)
       [] r.layout = "SXhead" -> S \o u16_to_be_bytes(ATTR_XOR_MAPPED_ADDRESS)
       [] r.layout = "MXlong" ->
            M \o u16_to_be_bytes(ATTR_XOR_MAPPED_ADDRESS) \o u16_to_be_bytes(12)
              \o XorValue(1, r.xaddr)
       [] r.layout = "MXfamily" ->
            M \o Attribute(ATTR_XOR_MAPPED_ADDRESS, XorValue(3, r.xaddr))
       [] r.layout = "Xbeyond" -> X
       [] r.layout = "SXafter" -> S \o X
       [] r.layout = "X6short" -> Attribute(ATTR_XOR_MAPPED_ADDRESS, XorValue(2, r.xaddr))
       [] r.layout = "Mshort" -> Attribute(ATTR_MAPPED_ADDRESS, <<0, 1, 18, 52>>)
       [] r.layout = "M6short" -> Attribute(ATTR_MAPPED_ADDRESS, MappedValue(2, MappedAddr))

\* the datagram for response r to the request with transaction ID txid.  The
\* length field counts the attributes, except in two layouts whose sender
\* declares less than it sends: "Xbeyond" declares the 4-byte attribute
\* header only, "SXafter" the 8 bytes of the first attribute.
Datagram(r, txid) ==
  LET body == AttributesOf(r, txid)
      tx == IF r.tx = "same" THEN txid ELSE [txid EXCEPT ![12] = (txid[12] + 1) % 256]
      msg_len == CASE r.layout = "Xbeyond" -> 4
                   [] r.layout = "SXafter" -> 8
                   [] OTHER -> Len(body)
      full == u16_to_be_bytes(r.msg_type) \o u16_to_be_bytes(msg_len) \o r.cookie \o tx \o body
  IN SubSeq(full, 1, Len(full) - r.cut)

StunInit ==
  /\ NatTraversal_new
  /\ NoPair
  /\ NoClient
  /\ probe = NoProbe
  /\ data = <<>>
  /\ transaction_id \in TransactionIds
  /\ response \in Responses
  /\ result = NoResult
  /\ step = "send"

\* query: the binding request goes out
query_send ==
  /\ step = "send"
  /\ data' = build_binding_request(transaction_id)
  /\ step' = "recv"
  /\ UNCHANGED <<probe, transaction_id, response, result>>
  /\ UNCHANGED <<orchVars, sigVars, stunVars, punchVars, inbox, tcpVars, pairVars, callVars>>

\* query: recv_from returns one datagram
query_recv ==
  /\ step = "recv"
  /\ data' = Datagram(response, transaction_id)
  /\ step' = "parse"
  /\ UNCHANGED <<probe, transaction_id, response, result>>
  /\ UNCHANGED <<orchVars, sigVars, stunVars, punchVars, inbox, tcpVars, pairVars, callVars>>

\* query: the datagram is parsed and the outcome returned
query_parse ==
  /\ step = "parse"
  /\ result' = parse_binding_response(data, transaction_id)
  /\ step' = "parsed"
  /\ UNCHANGED <<probe, data, transaction_id, response>>
  /\ UNCHANGED <<orchVars, sigVars, stunVars, punchVars, inbox, tcpVars, pairVars, callVars>>

StunNext ==
  \/ query_send
  \/ query_recv
  \/ query_parse

StunSpec == StunInit /\ [][StunNext]_vars

\* ------------------------------------------------ two hosts, one broker
\* alice and bob each run connect towards the other.  The surroundings are as
\* kind as they can be: the broker acknowledges every registration and
\* forwards every offer (holding it until its target has registered), the
\* STUN server answers, each NAT lets in whatever is sent to a mapping the
\* host has opened, no message is lost, no system call fails, and a TCP
\* handshake completes as soon as both sides are trying.  Time passes in
\* rounds of ROUND ms, the time after which punch_hole's next burst is due;
\* a wait loop is looked at once per round.  A signalling message takes up to
\* MaxWsLatency rounds, a datagram none.
ROUND == SEND_INTERVAL + IDLE_SLEEP

\* the reflexive address the STUN server reports to each host
Reflexive(p) == IF p = "alice" THEN [ip |-> "203.0.113.7", port |-> 61000] ELSE PeerExternal
\* the UDP socket StunClient::new binds on each host
HostSocket(p) == [run |-> 1, n |-> 1, port |-> IF p = "alice" THEN 40001 ELSE 40002]
\* config.signing_key of each host
HostKey(p) == IF p = "alice" THEN PeerKey ELSE StrangerKey

\* forward_offer as the broker builds it from the offer of host p
ForwardOffer(p) ==
  [type |-> "forward_offer", from_fingerprint |-> p,
   external_addr |-> nat[p].external_addr, local_addr |-> local_addr(HostSocket(p))]

\* the host's UDP socket is bound and punch_hole has not returned yet
Reads(p) == nat[p].pc \in {"offer", "offer_wait", "punch", "punch_loop"}

PairInit ==
  /\ NatTraversal_new
  /\ NoCall
  /\ NoPair
  /\ NoClient

\* Step 1: state <- ConnectingSignalling, SignallingClient::connect
host_connect(p) ==
  /\ nat[p].pc = "new"
  /\ nat' = [nat EXCEPT ![p].state = "ConnectingSignalling", ![p].pc = "signalling"]
  /\ UNCHANGED <<wsIn, broker, udpIn>>
  /\ UNCHANGED <<orchVars, sigVars, stunVars, punchVars, inbox, tcpVars, fnVars, callVars>>

\* Step 2a: state <- Registering, register sends the register message; the
\* broker records the fingerprint, acknowledges, and hands over what it held
host_register(p) ==
  /\ nat[p].pc = "signalling"
  /\ nat' = [nat EXCEPT ![p].state = "Registering", ![p].pc = "register_wait"]
  /\ broker' = [registered |-> broker.registered \cup {p}, held |-> broker.held \ {Other(p)}]
  /\ wsIn' = [wsIn EXCEPT ![p] =
                <<[msg |-> [type |-> "register_ack", success |-> TRUE], age |-> 0]>>
                \o (IF Other(p) \in broker.held
                    THEN <<[msg |-> ForwardOffer(Other(p)), age |-> 0]>>
                    ELSE <<>>)]
  /\ UNCHANGED udpIn
  /\ UNCHANGED <<orchVars, sigVars, stunVars, punchVars, inbox, tcpVars, fnVars, callVars>>

\* Step 2b: register reads one message and wants a successful register_ack
host_register_ack(p) ==
  /\ nat[p].pc = "register_wait"
  /\ wsIn[p] # <<>>
  /\ wsIn' = [wsIn EXCEPT ![p] = Tail(@)]
  /\ nat' = IF Head(wsIn[p]).msg.type = "register_ack" /\ Head(wsIn[p]).msg.success
            THEN [nat EXCEPT ![p].state = "StunDiscovery", ![p].pc = "stun"]
            ELSE [nat EXCEPT ![p].pc = "err"]
  /\ UNCHANGED <<broker, udpIn>>
  /\ UNCHANGED <<orchVars, sigVars, stunVars, punchVars, inbox, tcpVars, fnVars, callVars>>

\* Step 3: StunClient::new and query; state <- SendingOffer
host_stun_discovery(p) ==
  /\ nat[p].pc = "stun"
  /\ nat' = [nat EXCEPT ![p].external_addr = Reflexive(p),
                        ![p].state = "SendingOffer",
                        ![p].pc = "offer"]
  /\ UNCHANGED <<wsIn, broker, udpIn>>
  /\ UNCHANGED <<orchVars, sigVars, stunVars, punchVars, inbox, tcpVars, fnVars, callVars>>

\* the peer's forward_offer is on its way to host p or waiting on its connection
ForwardWaiting(p) == \E i \in 1..Len(wsIn[p]) : wsIn[p][i].msg.type = "forward_offer"

\* Step 4a: send_offer sends the offer; the broker forwards it to the target
\* if that one has registered and holds it otherwise.  crossed remembers
\* whether the peer's forward_offer had reached this host before
host_send_offer(p) ==
  /\ nat[p].pc = "offer"
  /\ nat' = [nat EXCEPT ![p].pc = "offer_wait", ![p].crossed = ForwardWaiting(p)]
  /\ IF Other(p) \in broker.registered
     THEN /\ wsIn' = [wsIn EXCEPT ![Other(p)] = Append(@, [msg |-> ForwardOffer(p), age |-> 0])]
          /\ UNCHANGED broker
     ELSE /\ broker' = [broker EXCEPT !.held = @ \cup {p}]
          /\ UNCHANGED wsIn
  /\ UNCHANGED udpIn
  /\ UNCHANGED <<orchVars, sigVars, stunVars, punchVars, inbox, tcpVars, fnVars, callVars>>

\* variant of host_send_offer_recv: a forward_offer that was there before the
\* host's own offer went out is refused
host_send_offer_recv_RefuseEarly(p) ==
  /\ nat[p].pc = "offer_wait"
  /\ wsIn[p] # <<>>
  /\ wsIn' = [wsIn EXCEPT ![p] = Tail(@)]
  /\ nat' = CASE Head(wsIn[p]).msg.type = "forward_offer" /\ ~nat[p].crossed ->
                   [nat EXCEPT ![p].peer_info =
                                 [fingerprint |-> Head(wsIn[p]).msg.from_fingerprint,
                                  external_addr |-> Head(wsIn[p]).msg.external_addr,
                                  local_addr |-> Head(wsIn[p]).msg.local_addr,
                                  nonce |-> 1],
                               ![p].state = "UdpHolePunching",
                               ![p].pc = "punch"]
              [] Head(wsIn[p]).msg.type \in {"forward_offer", "error"} ->
                   [nat EXCEPT ![p].pc = "err"]
              [] OTHER -> nat
  /\ UNCHANGED <<broker, udpIn>>
  /\ UNCHANGED <<orchVars, sigVars, stunVars, punchVars, inbox, tcpVars, fnVars, callVars>>

\* Step 4b: one turn of send_offer's receive loop; the first forward_offer is
\* the peer's.  state <- UdpHolePunching
host_send_offer_recv(p) ==
  /\ nat[p].pc = "offer_wait"
  /\ wsIn[p] # <<>>
  /\ wsIn' = [wsIn EXCEPT ![p] = Tail(@)]
  /\ nat' = CASE Head(wsIn[p]).msg.type = "forward_offer" ->
                   [nat EXCEPT ![p].peer_info =
                                 [fingerprint |-> Head(wsIn[p]).msg.from_fingerprint,
                                  external_addr |-> Head(wsIn[p]).msg.external_addr,
                                  local_addr |-> Head(wsIn[p]).msg.local_addr,
                                  nonce |-> 1],
                               ![p].state = "UdpHolePunching",
                               ![p].pc = "punch"]
              [] Head(wsIn[p]).msg.type = "error" -> [nat EXCEPT ![p].pc = "err"]
              [] OTHER -> nat
  /\ UNCHANGED <<broker, udpIn>>
  /\ UNCHANGED <<orchVars, sigVars, stunVars, punchVars, inbox, tcpVars, fnVars, callVars>>

\* Step 5a: UdpHolePuncher::new; punch_hole reads the local port and starts
\* its clocks (last_send = now)
host_punch_hole_start(p) ==
  /\ nat[p].pc = "punch"
  /\ nat' = [nat EXCEPT ![p].probe_port = into_socket(HostSocket(p)).port,
                        ![p].elapsed = 0,
                        ![p].since_send = 0,
                        ![p].pc = "punch_loop"]
  /\ UNCHANGED <<wsIn, broker, udpIn>>
  /\ UNCHANGED <<orchVars, sigVars, stunVars, punchVars, inbox, tcpVars, fnVars, callVars>>

\* the probe host p sends in a burst
HostProbeBytes(p) == to_bytes(ProbePacket_new(PeerNonce, nat[p].probe_port, HostKey(p)))

\* the burst of host p is due
HostBurstDue(p) == nat[p].since_send > SEND_INTERVAL

\* udpIn of host q after a turn of host p's loop: p's burst, when due, reaches
\* q if one of the candidates is q's reflexive address and q's socket is open
AfterBurst(p, q) ==
  IF /\ HostBurstDue(p)
     /\ Reflexive(q) \in BurstTargets(<<nat[p].peer_info.external_addr,
                                        nat[p].peer_info.local_addr>>, {})
     /\ Reads(q)
  THEN Append(udpIn[q], [data |-> HostProbeBytes(p), src |-> Reflexive(p)])
  ELSE udpIn[q]

\* Step 5b: the deadline check at the top of punch_hole's loop
host_punch_hole_timeout(p) ==
  /\ nat[p].pc = "punch_loop"
  /\ nat[p].elapsed > PUNCH_TIMEOUT
  /\ nat' = [nat EXCEPT ![p].pc = "err", ![p].elapsed = 0, ![p].since_send = 0,
                        ![p].slept = FALSE]
  /\ udpIn' = [udpIn EXCEPT ![p] = <<>>]
  /\ UNCHANGED <<wsIn, broker>>
  /\ UNCHANGED <<orchVars, sigVars, stunVars, punchVars, inbox, tcpVars, fnVars, callVars>>

\* Step 5c: a turn of punch_hole's loop: burst when due, then one recv_from;
\* a datagram that parses ends punch_hole, anything else is followed by the
\* sleep.  state <- TcpConnecting on return
host_punch_hole_turn(p) ==
  /\ nat[p].pc = "punch_loop"
  /\ ~nat[p].slept
  /\ nat[p].elapsed <= PUNCH_TIMEOUT
  /\ IF /\ udpIn[p] # <<>>
        /\ from_bytes(Head(udpIn[p]).data).ok
        /\ accept_probe(from_bytes(Head(udpIn[p]).data))
     THEN /\ nat' = [nat EXCEPT ![p].peer_tcp_port = from_bytes(Head(udpIn[p]).data).tcp_port,
                                ![p].sent_probe = @ \/ HostBurstDue(p),
                                ![p].elapsed = 0,
                                ![p].since_send = 0,
                                ![p].state = "TcpConnecting",
                                ![p].pc = "tcp"]
          /\ udpIn' = [q \in Peers |-> IF q = p THEN <<>> ELSE AfterBurst(p, q)]
     ELSE /\ nat' = [nat EXCEPT ![p].sent_probe = @ \/ HostBurstDue(p),
                                ![p].since_send = IF HostBurstDue(p) THEN 0 ELSE @,
                                ![p].slept = TRUE]
          /\ udpIn' = [q \in Peers |-> IF q = p
                                       THEN (IF udpIn[p] = <<>> THEN <<>> ELSE Tail(udpIn[p]))
                                       ELSE AfterBurst(p, q)]
  /\ UNCHANGED <<wsIn, broker>>
  /\ UNCHANGED <<orchVars, sigVars, stunVars, punchVars, inbox, tcpVars, fnVars, callVars>>

\* Step 6a: tcp_simultaneous_open: nobody listens, so the direct connect
\* fails and the port-reusing socket starts its connect
host_tcp_open(p) ==
  /\ nat[p].pc = "tcp"
  /\ nat' = [nat EXCEPT ![p].tcp_elapsed = 0, ![p].pc = "tcp_wait"]
  /\ UNCHANGED <<wsIn, broker, udpIn>>
  /\ UNCHANGED <<orchVars, sigVars, stunVars, punchVars, inbox, tcpVars, fnVars, callVars>>

\* Step 6b: the deadline of tcp_simultaneous_open's wait loop
host_tcp_timeout(p) ==
  /\ nat[p].pc = "tcp_wait"
  /\ nat[p].tcp_elapsed > TCP_TIMEOUT
  /\ nat' = [nat EXCEPT ![p].pc = "err", ![p].tcp_elapsed = 0, ![p].slept = FALSE]
  /\ UNCHANGED <<wsIn, broker, udpIn>>
  /\ UNCHANGED <<orchVars, sigVars, stunVars, punchVars, inbox, tcpVars, fnVars, callVars>>

\* Step 6c: a turn of the wait loop: the handshake is done once the other
\* host is connecting as well.  state <- Connected
host_tcp_wait(p) ==
  /\ nat[p].pc = "tcp_wait"
  /\ ~nat[p].slept
  /\ nat[p].tcp_elapsed <= TCP_TIMEOUT
  /\ nat' = IF nat[Other(p)].pc \in {"tcp_wait", "close", "ok"}
            THEN [nat EXCEPT ![p].state = "Connected", ![p].tcp_elapsed = 0, ![p].pc = "close"]
            ELSE [nat EXCEPT ![p].slept = TRUE]
  /\ UNCHANGED <<wsIn, broker, udpIn>>
  /\ UNCHANGED <<orchVars, sigVars, stunVars, punchVars, inbox, tcpVars, fnVars, callVars>>

\* Step 7: signalling.close() and return of the stream
host_cleanup(p) ==
  /\ nat[p].pc = "close"
  /\ nat' = [nat EXCEPT ![p].pc = "ok"]
  /\ UNCHANGED <<wsIn, broker, udpIn>>
  /\ UNCHANGED <<orchVars, sigVars, stunVars, punchVars, inbox, tcpVars, fnVars, callVars>>

\* host p has nothing to do before time passes: it has returned, waits for a
\* message that may still be on its way, or sleeps in a loop
Settled(p) ==
  \/ nat[p].pc \in {"ok", "err"}
  \/ /\ nat[p].pc \in {"register_wait", "offer_wait"}
     /\ IF wsIn[p] = <<>> THEN TRUE ELSE Head(wsIn[p]).age < MaxWsLatency
  \/ /\ nat[p].pc \in {"punch_loop", "tcp_wait"}
     /\ nat[p].slept

\* a round passes: the clocks of the running loops advance, sleepers wake,
\* messages on their way grow older
tick ==
  /\ \A p \in Peers : Settled(p)
  /\ \E p \in Peers : nat[p].pc \notin {"ok", "err"}
  /\ nat' = [p \in Peers |->
               CASE nat[p].pc = "punch_loop" ->
                      [nat[p] EXCEPT !.elapsed = Min(@ + ROUND, PUNCH_TIMEOUT + ROUND),
                                     !.since_send = Min(@ + ROUND, ROUND),
                                     !.slept = FALSE]
                 [] nat[p].pc = "tcp_wait" ->
                      [nat[p] EXCEPT !.tcp_elapsed = Min(@ + ROUND, TCP_TIMEOUT + ROUND),
                                     !.slept = FALSE]
                 [] OTHER -> nat[p]]
  /\ wsIn' = [p \in Peers |->
                [i \in 1..Len(wsIn[p]) |->
                   [wsIn[p][i] EXCEPT !.age = Min(@ + 1, MaxWsLatency)]]]
  /\ UNCHANGED <<broker, udpIn>>
  /\ UNCHANGED <<orchVars, sigVars, stunVars, punchVars, inbox, tcpVars, fnVars, callVars>>

\* what host p does next
host_step(p) ==
  \/ host_connect(p)
  \/ host_register(p)
  \/ host_register_ack(p)
  \/ host_stun_discovery(p)
  \/ host_send_offer(p)
  \/ host_send_offer_recv(p)
  \/ host_punch_hole_start(p)
  \/ host_punch_hole_timeout(p)
  \/ host_punch_hole_turn(p)
  \/ host_tcp_open(p)
  \/ host_tcp_timeout(p)
  \/ host_tcp_wait(p)
  \/ host_cleanup(p)

PairNext ==
  \/ \E p \in Peers : host_step(p)
  \/ tick

\* every host keeps running and time keeps passing
PairSpec ==
  /\ PairInit
  /\ [][PairNext]_vars
  /\ \A p \in Peers : WF_vars(host_step(p))
  /\ WF_vars(tick)

\* ------------------------------------------- the signalling client alone
\* SignallingClient on a WebSocket whose incoming frames are given: register
\* and send_offer are called and run until they return.  A text frame holds
\* JSON: either no valid document, or an object, kept as the function from
\* its member names to their values.

KnownTags ==
  {"register", "register_ack", "offer", "forward_offer", "offer_response", "keepalive", "error"}

\* the members each variant of SignallingMessage needs to be decoded
RequiredMembers(tag) ==
  CASE tag = "register" -> {"fingerprint"}
    [] tag = "register_ack" -> {"success", "message"}
    [] tag = "offer" -> {"target_fingerprint", "external_ip", "external_port", "local_ip",
                         "local_port", "nonce", "fingerprint"}
    [] tag = "forward_offer" -> {"from_fingerprint", "external_ip", "external_port", "local_ip",
                                 "local_port", "nonce"}
    [] tag = "offer_response" -> {"success"}
    [] tag = "keepalive" -> {}
    [] tag = "error" -> {"message"}

\* members of type Option
OptionalMembers(tag) == IF tag = "offer_response" THEN {"message"} ELSE {}

ClientOk(v) == [ok |-> TRUE, value |-> v]
ClientErr(e, m) == [ok |-> FALSE, err |-> e, message |-> m]

\* serde_json::from_str::<SignallingMessage> with the derive of the enum
\* (internally tagged by "type", unknown members not denied)
from_str(text) ==
  IF ~text.valid THEN ClientErr("Failed to decode signalling message", "")
  ELSE IF "type" \notin DOMAIN text.members
  THEN ClientErr("Failed to decode signalling message", "")
  ELSE IF text.members.type \notin KnownTags
  THEN ClientErr("Failed to decode signalling message", "")
  ELSE IF ~(RequiredMembers(text.members.type) \subseteq DOMAIN text.members)
  THEN ClientErr("Failed to decode signalling message", "")
  ELSE ClientOk([m \in {"type"} \cup RequiredMembers(text.members.type)
                          \cup (OptionalMembers(text.members.type) \cap DOMAIN text.members)
                   |-> text.members[m]])

\* serde_json::to_string of a message
to_string(msg) == [valid |-> TRUE, members |-> msg]

\* ws_stream.send(frame): the connection takes ws.writable more frames
\* before sending fails
ws_send(ws, frame) ==
  IF ws.writable = 0 THEN [ok |-> FALSE, ws |-> ws]
  ELSE [ok |-> TRUE, ws |-> [ws EXCEPT !.sent = Append(@, frame), !.writable = @ - 1]]

\* SignallingClient::send_message
send_message(ws, msg) == ws_send(ws, [kind |-> "Text", text |-> to_string(msg)])

\* variant of Pong: the answer carries no payload
Pong_Empty(payload) == [kind |-> "Pong", data |-> <<>>]

\* Message::Pong(data), the answer to a ping
Pong(payload) == [kind |-> "Pong", data |-> payload]

\* SignallingClient::receive_message: frames are taken from the stream until
\* one ends the loop
RECURSIVE receive_message(_)
receive_message(ws) ==
  IF ws.incoming = <<>> THEN [ws |-> ws, outcome |-> ClientErr("Connection closed", "")]
  ELSE LET msg == Head(ws.incoming)
           rest == [ws EXCEPT !.incoming = Tail(@), !.read = Append(@, msg)]
       IN CASE msg.kind = "Text" -> [ws |-> rest, outcome |-> from_str(msg.text)]
            [] msg.kind = "Ping" ->
                 IF ws_send(rest, Pong(msg.data)).ok
                 THEN receive_message(ws_send(rest, Pong(msg.data)).ws)
                 ELSE [ws |-> rest, outcome |-> ClientErr("tungstenite error", "")]
            [] msg.kind = "Pong" -> receive_message(rest)
            [] msg.kind = "Close" ->
                 [ws |-> rest, outcome |-> ClientErr("Server closed WebSocket", "")]
            [] OTHER -> receive_message(rest)

\* "{ip}:{port}".parse::<SocketAddr>() succeeds for an IPv4 literal
Ipv4Literals == {"198.51.100.9", "192.168.1.20", "203.0.113.77", "10.0.0.7"}
parse_addr(ip, port) ==
  IF ip \in Ipv4Literals THEN ClientOk([ip |-> ip, port |-> port])
  ELSE ClientErr("Invalid addr", "")

\* ----- what the broker may send
ForwardOfferFrom(fp, ext, loc, nonce) ==
  [kind |-> "Text",
   text |-> to_string([type |-> "forward_offer", from_fingerprint |-> fp,
                       external_ip |-> ext.ip, external_port |-> ext.port,
                       local_ip |-> loc.ip, local_port |-> loc.port, nonce |-> nonce])]

TextFrame(members) == [kind |-> "Text", text |-> [valid |-> TRUE, members |-> members]]

Frames ==
  { TextFrame([type |-> "register_ack", success |-> TRUE, message |-> "ok"]),
    TextFrame([type |-> "register_ack", success |-> FALSE, message |-> "taken"]),
    TextFrame([type |-> "register_ack", success |-> TRUE, message |-> "ok", server_time |-> 1]),
    ForwardOfferFrom("bob", PeerExternal, PeerLocal, 7),
    ForwardOfferFrom("carol", [ip |-> "203.0.113.77", port |-> 63000],
                     [ip |-> "10.0.0.7", port |-> 40010], 9),
    TextFrame([type |-> "offer_response", success |-> TRUE]),
    TextFrame([type |-> "keepalive"]),
    TextFrame([type |-> "offer", target_fingerprint |-> "alice", external_ip |-> "198.51.100.9",
               external_port |-> 62000, local_ip |-> "192.168.1.20", local_port |-> 40009,
               nonce |-> 7, fingerprint |-> "bob"]),
    TextFrame([type |-> "error", message |-> "no such peer"]),
    TextFrame([type |-> "peer_list"]),
    [kind |-> "Ping", data |-> <<1, 2>>],
    [kind |-> "Pong", data |-> <<3>>],
    [kind |-> "Binary", data |-> <<4>>],
    [kind |-> "Close"] }

RECURSIVE Scripts(_)
Scripts(n) ==
  IF n = 0 THEN {<<>>}
  ELSE Scripts(n - 1) \cup {Append(s, f) : s \in Scripts(n - 1), f \in Frames}

Calls ==
  { [op |-> "register", fingerprint |-> "alice"],
    [op |-> "send_offer", target_fingerprint |-> "bob",
     external_addr |-> [ip |-> "203.0.113.7", port |-> 61000],
     local_addr |-> [ip |-> "0.0.0.0", port |-> 40001], nonce |-> 5] }

\* a client as SignallingClient::connect returns it (local_fingerprint None),
\* or, for send_offer, also one that has registered
ClientInit ==
  /\ NatTraversal_new
  /\ local_fingerprint = "alice"
  /\ config_tcp_port = RANDOM_PORT
  /\ NoPair
  /\ probe = NoProbe
  /\ data = <<>>
  /\ transaction_id = <<>>
  /\ response = NoResponse
  /\ result = NoResult
  /\ step = "call"
  /\ NoFfi
  /\ args \in Calls
  /\ \E s \in Scripts(MaxFrames), w \in {0, 1, MaxFrames + 1}, fp \in {<<>>, <<"alice">>} :
       /\ args.op = "register" => fp = <<>>
       /\ client = [ws_stream |-> [incoming |-> s, sent |-> <<>>, read |-> <<>>, writable |-> w],
                    local_fingerprint |-> fp]

\* what a client action leaves alone
ClientFrame ==
  /\ UNCHANGED <<local_fingerprint, config_tcp_port, state, pc, calls, peer_fingerprint, trace,
                 errPhase, everFailed, entry>>
  /\ UNCHANGED sigVars
  /\ UNCHANGED <<stunVars, punchVars, inbox, tcpVars, pairVars>>
  /\ UNCHANGED <<probe, data, transaction_id, response, args, heap, LAST_ERROR>>

\* variant of client_register: every register_ack registers the client
client_register_AnyAck ==
  /\ step = "call"
  /\ args.op = "register"
  /\ LET s == send_message(client.ws_stream,
                           [type |-> "register", fingerprint |-> args.fingerprint])
         r == receive_message(s.ws)
     IN IF ~s.ok
        THEN /\ result' = ClientErr("WebSocket send failed", "")
             /\ UNCHANGED client
        ELSE IF ~r.outcome.ok
        THEN /\ result' = r.outcome
             /\ client' = [client EXCEPT !.ws_stream = r.ws]
        ELSE IF r.outcome.value.type = "register_ack"
        THEN /\ result' = ClientOk("unit")
             /\ client' = [ws_stream |-> r.ws, local_fingerprint |-> <<args.fingerprint>>]
        ELSE /\ result' = ClientErr("Unexpected registration response", "")
             /\ client' = [client EXCEPT !.ws_stream = r.ws]
  /\ step' = "returned"
  /\ ClientFrame

\* SignallingClient::register
client_register ==
  /\ step = "call"
  /\ args.op = "register"
  /\ LET s == send_message(client.ws_stream,
                           [type |-> "register", fingerprint |-> args.fingerprint])
         r == receive_message(s.ws)
     IN IF ~s.ok
        THEN /\ result' = ClientErr("WebSocket send failed", "")
             /\ UNCHANGED client
        ELSE IF ~r.outcome.ok
        THEN /\ result' = r.outcome
             /\ client' = [client EXCEPT !.ws_stream = r.ws]
        ELSE IF r.outcome.value.type = "register_ack"
        THEN IF r.outcome.value.success
             THEN /\ result' = ClientOk("unit")
                  /\ client' = [ws_stream |-> r.ws, local_fingerprint |-> <<args.fingerprint>>]
             ELSE /\ result' = ClientErr("Registration failed", r.outcome.value.message)
                  /\ client' = [client EXCEPT !.ws_stream = r.ws]
        ELSE /\ result' = ClientErr("Unexpected registration response", "")
             /\ client' = [client EXCEPT !.ws_stream = r.ws]
  /\ step' = "returned"
  /\ ClientFrame

\* SignallingClient::send_offer up to the loop: the offer is built and sent
client_send_offer ==
  /\ step = "call"
  /\ args.op = "send_offer"
  /\ IF client.local_fingerprint = <<>>
     THEN /\ result' = ClientErr("Not registered", "")
          /\ step' = "returned"
          /\ UNCHANGED client
     ELSE LET s == send_message(client.ws_stream,
                     [type |-> "offer", target_fingerprint |-> args.target_fingerprint,
                      external_ip |-> args.external_addr.ip,
                      external_port |-> args.external_addr.port,
                      local_ip |-> args.local_addr.ip, local_port |-> args.local_addr.port,
                      nonce |-> args.nonce, fingerprint |-> client.local_fingerprint[1]])
          IN IF s.ok
             THEN /\ client' = [client EXCEPT !.ws_stream = s.ws]
                  /\ step' = "offer_wait"
                  /\ UNCHANGED result
             ELSE /\ result' = ClientErr("WebSocket send failed", "")
                  /\ step' = "returned"
                  /\ UNCHANGED client
  /\ ClientFrame

\* the PeerInfo send_offer makes of a forward_offer
PeerInfoOf(m) ==
  IF parse_addr(m.external_ip, m.external_port).ok /\ parse_addr(m.local_ip, m.local_port).ok
  THEN ClientOk([fingerprint |-> m.from_fingerprint,
                 external_addr |-> parse_addr(m.external_ip, m.external_port).value,
                 local_addr |-> parse_addr(m.local_ip, m.local_port).value,
                 nonce |-> m.nonce])
  ELSE ClientErr("Invalid addr", "")

\* variant of client_send_offer_recv: an error message is skipped like the others
client_send_offer_recv_ErrorSkipped ==
  /\ step = "offer_wait"
  /\ LET r == receive_message(client.ws_stream)
     IN /\ client' = [client EXCEPT !.ws_stream = r.ws]
        /\ IF ~r.outcome.ok
           THEN result' = r.outcome /\ step' = "returned"
           ELSE IF r.outcome.value.type = "forward_offer"
           THEN result' = PeerInfoOf(r.outcome.value) /\ step' = "returned"
           ELSE UNCHANGED <<result, step>>
  /\ ClientFrame

\* one turn of send_offer's loop: receive_message and the match on its value
client_send_offer_recv ==
  /\ step = "offer_wait"
  /\ LET r == receive_message(client.ws_stream)
     IN /\ client' = [client EXCEPT !.ws_stream = r.ws]
        /\ IF ~r.outcome.ok
           THEN result' = r.outcome /\ step' = "returned"
           ELSE IF r.outcome.value.type = "forward_offer"
           THEN result' = PeerInfoOf(r.outcome.value) /\ step' = "returned"
           ELSE IF r.outcome.value.type = "error"
           THEN /\ result' = ClientErr("Signalling error", r.outcome.value.message)
                /\ step' = "returned"
           ELSE UNCHANGED <<result, step>>
  /\ ClientFrame

ClientNext ==
  \/ client_register
  \/ client_send_offer
  \/ client_send_offer_recv

ClientSpec == ClientInit /\ [][ClientNext]_vars

\* ------------------------------------------------- role determination
\* The tail of run_nat_traversal on two hosts that target each other: each
\* compares its own fingerprint with the peer's.  A fingerprint is a String,
\* kept as the sequence of its UTF-8 bytes.

\* bytes of '0', '9', 'A', 'a'
IdBytes == {48, 57, 65, 97}

RECURSIVE Identifiers(_)
Identifiers(n) ==
  IF n = 0 THEN {}
  ELSE {<<c>> : c \in IdBytes} \cup {Append(s, c) : s \in Identifiers(n - 1), c \in IdBytes}

\* String's `<`: the bytes are compared in order, a proper prefix is smaller
RECURSIVE str_lt(_, _)
str_lt(a, b) ==
  IF b = <<>> THEN FALSE
  ELSE IF a = <<>> THEN TRUE
  ELSE IF Head(a) # Head(b) THEN Head(a) < Head(b)
  ELSE str_lt(Tail(a), Tail(b))

\* variant of is_initiator: only the first bytes are compared
is_initiator_FirstByte(local, peer) == local[1] < peer[1]

\* let is_initiator = local_fingerprint < peer_fingerprint.to_string()
is_initiator(local, peer) == str_lt(local, peer)

\* the two hosts have their fingerprints and have been given each other's;
\* run_nat_traversal has exited if they were the same
RoleInit ==
  /\ NatTraversal_new
  /\ local_fingerprint = "alice"
  /\ config_tcp_port = RANDOM_PORT
  /\ NoPair
  /\ probe = NoProbe
  /\ data = <<>>
  /\ transaction_id = <<>>
  /\ response = NoResponse
  /\ client = [ws_stream |-> NoStream, local_fingerprint |-> <<>>]
  /\ NoFfi
  /\ step = "call"
  /\ result = [p \in Peers |-> "none"]
  /\ \E a \in Identifiers(MaxIdLen), b \in Identifiers(MaxIdLen) :
       /\ a # b
       /\ args = [alice |-> [local_fingerprint |-> a, peer_fingerprint |-> b],
                  bob |-> [local_fingerprint |-> b, peer_fingerprint |-> a]]

\* host p has its stream and picks the session it runs
run_session(p) ==
  /\ step = "call"
  /\ result[p] = "none"
  /\ result' = [result EXCEPT ![p] =
                  IF is_initiator(args[p].local_fingerprint, args[p].peer_fingerprint)
                  THEN "initiator" ELSE "responder"]
  /\ step' = IF result[Other(p)] # "none" THEN "returned" ELSE "call"
  /\ UNCHANGED <<probe, data, transaction_id, response>>
  /\ UNCHANGED <<orchVars, sigVars, stunVars, punchVars, inbox, tcpVars, pairVars, callVars>>

RoleNext == \E p \in Peers : run_session(p)

RoleSpec == RoleInit /\ [][RoleNext]_vars

TypeOK ==
  /\ state \in ConnectionState
  /\ pc \in {"new", "exit", "signalling", "register", "stun", "offer", "offer_wait", "punch",
             "punch_loop", "tcp", "tcp_bind", "tcp_poll", "close", "ok", "err"}
  /\ sig \in {"none", "open", "closed", "dropped"}
  /\ calls \in 0..MaxCalls
  /\ Len(inbox) <= MaxInbox

\* ------------------------------------------------------ the C interface
\* The extern "C" functions of ffi/nat_traversal.rs called from the host
\* language.  A handle is the address of a boxed NatTraversal; the caller
\* passes the null pointer or a handle it got from pineapple_nat_create and
\* has not yet freed.  A C string argument is the null pointer, bytes that are
\* no UTF-8, or a string.

CStrings(values) == {[ptr |-> "null"], [ptr |-> "bytes"]} \cup {[ptr |-> "str", s |-> v] : v \in values}

\* c_str_to_rust: None for the null pointer and for invalid UTF-8
c_str_to_rust(ptr) == IF ptr.ptr = "str" THEN <<ptr.s>> ELSE <<>>

\* SocketAddr::from_str on the configured STUN server address
StunAddrLiterals == {"203.0.113.1:3478"}

Configs ==
  [signalling_url : CStrings({"wss://broker.example"}),
   stun_server_addr : CStrings({"203.0.113.1:3478", "stun.example"}),
   local_fingerprint : CStrings({"alice"}),
   signing_key_bytes : {"null", "key"},
   tcp_port : {RANDOM_PORT}]

LiveHandles == {a \in Addresses : heap[a] # <<>>}

\* set_last_error
set_last_error(error) == LAST_ERROR' = <<error>>

\* an FFI call returns; what it leaves alone
FfiReturn(call, value) ==
  /\ args' = call
  /\ result' = value
  /\ step' = "returned"
  /\ UNCHANGED <<orchVars, sigVars, stunVars, punchVars, inbox, tcpVars, pairVars>>
  /\ UNCHANGED <<probe, data, transaction_id, response, client>>

FfiInit ==
  /\ NatTraversal_new
  /\ local_fingerprint = "alice"
  /\ config_tcp_port = RANDOM_PORT
  /\ NoPair
  /\ probe = NoProbe
  /\ data = <<>>
  /\ transaction_id = <<>>
  /\ response = NoResponse
  /\ result = NoResult
  /\ step = "call"
  /\ NoClient

\* pineapple_nat_create
pineapple_nat_create ==
  \E config \in Configs :
    LET call == [op |-> "pineapple_nat_create", config |-> config]
    IN IF c_str_to_rust(config.signalling_url) = <<>>
       THEN /\ set_last_error("Invalid signalling URL")
            /\ UNCHANGED heap
            /\ FfiReturn(call, NULL)
       ELSE IF c_str_to_rust(config.stun_server_addr) = <<>>
       THEN /\ set_last_error("Invalid STUN server address")
            /\ UNCHANGED heap
            /\ FfiReturn(call, NULL)
       ELSE IF c_str_to_rust(config.stun_server_addr)[1] \notin StunAddrLiterals
       THEN /\ set_last_error("Invalid STUN server address: invalid socket address syntax")
            /\ UNCHANGED heap
            /\ FfiReturn(call, NULL)
       ELSE IF c_str_to_rust(config.local_fingerprint) = <<>>
       THEN /\ set_last_error("Invalid local fingerprint")
            /\ UNCHANGED heap
            /\ FfiReturn(call, NULL)
       ELSE IF config.signing_key_bytes = "null"
       THEN /\ set_last_error("Null signing key")
            /\ UNCHANGED heap
            /\ FfiReturn(call, NULL)
       ELSE \E a \in Addresses \ LiveHandles :
              /\ heap' = [heap EXCEPT ![a] =
                            <<[local_fingerprint |-> c_str_to_rust(config.local_fingerprint)[1],
                               tcp_port |-> config.tcp_port,
                               state |-> "Idle"]>>]
              /\ UNCHANGED LAST_ERROR
              /\ FfiReturn(call, a)

\* variant of pineapple_nat_connect: the call enters NatTraversal::connect
pineapple_nat_connect_Blocking ==
  \E handle \in {NULL} \cup LiveHandles, peer_fp \in CStrings({"bob"}) :
    LET call == [op |-> "pineapple_nat_connect", handle |-> handle,
                 peer_fingerprint |-> peer_fp]
    IN IF handle = NULL
       THEN /\ set_last_error("Null NAT traversal handle")
            /\ UNCHANGED heap
            /\ FfiReturn(call, -1)
       ELSE IF c_str_to_rust(peer_fp) = <<>>
       THEN /\ set_last_error("Invalid peer fingerprint")
            /\ UNCHANGED heap
            /\ FfiReturn(call, -1)
       ELSE /\ heap' = [heap EXCEPT ![handle] = <<[@[1] EXCEPT !.state = "ConnectingSignalling"]>>]
            /\ set_last_error("TCP connection failed")
            /\ FfiReturn(call, -1)

\* pineapple_nat_connect
pineapple_nat_connect ==
  \E handle \in {NULL} \cup LiveHandles, peer_fp \in CStrings({"bob"}) :
    LET call == [op |-> "pineapple_nat_connect", handle |-> handle,
                 peer_fingerprint |-> peer_fp]
    IN IF handle = NULL
       THEN /\ set_last_error("Null NAT traversal handle")
            /\ UNCHANGED heap
            /\ FfiReturn(call, -1)
       ELSE IF c_str_to_rust(peer_fp) = <<>>
       THEN /\ set_last_error("Invalid peer fingerprint")
            /\ UNCHANGED heap
            /\ FfiReturn(call, -1)
       ELSE /\ set_last_error("Async runtime required - use pineapple_nat_connect_blocking")
            /\ UNCHANGED heap
            /\ FfiReturn(call, -1)

\* what pineapple_nat_get_state returns for a handle, the memory being mem
get_state(mem, handle) ==
  IF handle = NULL THEN "Failed" ELSE mem[handle][1].state

\* pineapple_nat_get_state
pineapple_nat_get_state ==
  \E handle \in {NULL} \cup LiveHandles :
    /\ UNCHANGED <<heap, LAST_ERROR>>
    /\ FfiReturn([op |-> "pineapple_nat_get_state", handle |-> handle], get_state(heap, handle))

\* pineapple_nat_free
pineapple_nat_free ==
  \E handle \in {NULL} \cup LiveHandles :
    /\ heap' = IF handle = NULL THEN heap ELSE [heap EXCEPT ![handle] = <<>>]
    /\ UNCHANGED LAST_ERROR
    /\ FfiReturn([op |-> "pineapple_nat_free", handle |-> handle], "unit")

\* pineapple_clear_error
pineapple_clear_error ==
  /\ LAST_ERROR' = <<>>
  /\ UNCHANGED heap
  /\ FfiReturn([op |-> "pineapple_clear_error"], "unit")

FfiNext ==
  \/ pineapple_nat_create
  \/ pineapple_nat_connect
  \/ pineapple_nat_get_state
  \/ pineapple_nat_free
  \/ pineapple_clear_error

FfiSpec == FfiInit /\ [][FfiNext]_vars


Ladder ==
  <<"Idle", "ConnectingSignalling", "Registering", "StunDiscovery", "SendingOffer",
    "UdpHolePunching", "TcpConnecting", "Connected">>

FailingPhases == {"signalling", "register", "stun", "offer", "punch", "tcp"}

Rank(s) ==
  CASE s = "Idle" -> 0
    [] s = "ConnectingSignalling" -> 1
    [] s = "Registering" -> 2
    [] s = "StunDiscovery" -> 3
    [] s = "SendingOffer" -> 4
    [] s = "WaitingForOffer" -> 5
    [] s = "UdpHolePunching" -> 6
    [] s = "TcpConnecting" -> 7
    [] s = "Connected" -> 8
    [] OTHER -> 9

\* C1: a connect run in which every phase succeeded assigned to state exactly
\* ConnectingSignalling, Registering, StunDiscovery, SendingOffer,
\* UdpHolePunching, TcpConnecting, Connected, in that order, each once; on a
\* freshly constructed instance the run started from Idle, so state took
\* exactly the values of the ladder.
C1_HappyPathLadder ==
  pc = "ok" =>
    /\ calls = 1 => trace = Ladder
    /\ calls > 1 => trace = Tail(Ladder)

C1_Witness == pc = "ok" /\ calls = 1 /\ state = "Connected" /\ trace = Ladder

\* C2: when connect returns the error of a failed phase, state is Failed.
C2_FailedOnError ==
  (pc = "err" /\ errPhase \in FailingPhases) => state = "Failed"

\* C3: when connect fails in a phase after the signalling connection was
\* opened, SignallingClient::close has been performed before the error is returned.
C3_CloseOnFailure ==
  (pc = "err" /\ errPhase \in FailingPhases \ {"signalling"}) => closeCalled

\* C4: once a connect call has failed, no later step changes state or opens a
\* signalling connection.
C4_TerminalAfterFailure ==
  [][everFailed => (state' = state /\ ~(sig # "open" /\ sig' = "open"))]_vars

\* C5: no step moves state to a lower-ranked state other than Failed.
C5_StateOnlyAdvances ==
  [][state' # "Failed" => Rank(state') >= Rank(state)]_vars

\* C6: connect returns Ok(stream) only after SignallingClient::close was
\* performed; the signalling connection is never open at that point.
C6_CloseBeforeOk ==
  pc = "ok" => (closeCalled /\ sig = "closed")

C6_Witness == pc = "ok" /\ state = "Connected" /\ closeCalled /\ tcpVia # "none"

\* C7: an attempt whose target fingerprint equals the local fingerprint opens
\* no signalling connection, sends no offer, and ends in an
\* InvalidConfiguration error.
C7_SelfConnectRefused ==
  (pc # "new" /\ peer_fingerprint = local_fingerprint) =>
    /\ sig = "none"
    /\ offer = NoOffer
    /\ pc \in {"exit", "signalling", "err"}
    /\ (pc = "err" => errPhase = "InvalidConfiguration")

\* C8: from the construction of the hole puncher on, its socket is the one the
\* STUN client bound (no UDP socket was bound after it), and its local address
\* is the one the STUN client reported and the offer carried.
C8_SameUdpSocket ==
  punchSock # NoSocket =>
    /\ punchSock = stunSock
    /\ udpBinds = 1
    /\ local_addr(punchSock) = stunLocal
    /\ offer.local_addr = stunLocal

C8_Witness == pc = "punch_loop" /\ bursts > 0 /\ punchSock # NoSocket /\ calls = 2

\* C9: tcp_simultaneous_open is entered only after at least one probe burst.
C9_ProbeBeforeTcp ==
  pc \in {"tcp", "tcp_bind", "tcp_poll"} => bursts > 0

\* C10: the port tcp_simultaneous_open binds is the port embedded in the probes.
C10_BoundPortIsProbePort ==
  tcpBound # 0 => tcpBound = probePort

\* C12: for every probe, to_bytes yields exactly 78 bytes that begin with the
\* magic PNPL, and from_bytes of those bytes succeeds with the same nonce,
\* tcp_port and signature.
C12_ProbeRoundTrip ==
  probe # NoProbe =>
    /\ step \in {"from_bytes", "parsed"} =>
         (Len(data) = 78 /\ SubSeq(data, 1, 4) = <<80, 78, 80, 76>>)
    /\ step = "parsed" =>
         /\ result.ok
         /\ result.nonce = probe.nonce
         /\ result.tcp_port = probe.tcp_port
         /\ result.signature = probe.signature

C12_Witness ==
  /\ step = "parsed"
  /\ probe.nonce = <<65535, 65535, 65535, 65535>>
  /\ probe.tcp_port = 256
  /\ probe.signature = ForgedSignature
  /\ result.ok

\* C13: from_bytes returns an error value, and no probe, for every input whose
\* length is not 78 and for every 78-byte input that does not begin with PNPL.
C13_BadProbeRejected ==
  (step = "parsed" /\ (Len(data) # 78 \/ SubSeq(data, 1, 4) # <<80, 78, 80, 76>>)) =>
    /\ ~result.ok
    /\ DOMAIN result = {"ok", "err"}
    /\ result.err \in {"Invalid probe packet length", "Invalid probe packet magic"}

C13_Witness ==
  /\ step = "parsed"
  /\ Len(data) = 79
  /\ SubSeq(data, 1, 4) = MAGIC
  /\ ~result.ok

\* a datagram as the wire format defines a probe: 78 bytes that begin with PNPL
WellFormed(d) == Len(d) = 78 /\ SubSeq(d, 1, 4) = <<80, 78, 80, 76>>

\* a step of punch_hole's loop in which recv_from returned a datagram
ReadStep == pc = "punch_loop" /\ elapsed <= PUNCH_TIMEOUT /\ Len(inbox') < Len(inbox)

\* C14: a received datagram that does not parse as a probe is dropped: the step
\* that reads it returns nothing, neither an error nor a port, performs the
\* burst if one is due, and leaves punch_hole in its loop.
C14_BadDatagramDiscarded ==
  [][(ReadStep /\ ~WellFormed(Head(inbox).data)) =>
       /\ pc' = "punch_loop"
       /\ inbox' = Tail(inbox)
       /\ state' = state /\ errPhase' = errPhase /\ everFailed' = everFailed
       /\ peerTcpPort' = peerTcpPort
       /\ (sinceSend > 200 => bursts' = bursts + 1)]_vars

C14_Witness ==
  /\ pc = "punch_loop"
  /\ lastRead # NoDatagram
  /\ ~WellFormed(lastRead.data)
  /\ bursts > 0
  /\ elapsed <= PUNCH_TIMEOUT

\* C16: the first well-formed datagram read makes punch_hole return the port in
\* its bytes 12..13, whoever signed it and whatever the signature is.
C16_FirstProbeWinsUnverified ==
  [][(ReadStep /\ WellFormed(Head(inbox).data)) =>
       /\ pc' = "tcp"
       /\ state' = "TcpConnecting"
       /\ peerTcpPort' = Head(inbox).data[13] * 256 + Head(inbox).data[14]]_vars

C16_Witness ==
  /\ pc = "tcp"
  /\ WellFormed(lastRead.data)
  /\ \A k \in SigningKeys : ~verify(from_bytes(lastRead.data), k)
  /\ peerTcpPort = lastRead.data[13] * 256 + lastRead.data[14]

\* C17: a burst calls send_to for every candidate address, whichever of the
\* sends fail, and a failing send does not end punch_hole with an error.
C17_BurstReachesEveryCandidate ==
  [][(pc = "punch_loop" /\ bursts' = bursts + 1) =>
       /\ sentTo' = {peer_info.external_addr, peer_info.local_addr}
       /\ pc' \in {"punch_loop", "tcp"}]_vars

C17_Witness ==
  /\ pc = "punch_loop"
  /\ bursts > 0
  /\ sendFailed = {peer_info.external_addr}
  /\ sentTo = {peer_info.external_addr, peer_info.local_addr}

\* C15: punch_hole ends: it returns a port, or the hole-punch timeout error;
\* it returns the error only once the deadline counted from its entry has
\* passed, and a port only from a well-formed probe it read.
C15_PunchHoleTerminates ==
  /\ <>(pc = "tcp" \/ (pc = "err" /\ errPhase = "punch"))
  /\ [][(pc = "punch_loop" /\ pc' = "err") => (elapsed > 30000 /\ errPhase' = "punch")]_vars
  /\ [][(pc = "punch_loop" /\ pc' # "punch_loop" /\ pc' # "err") =>
          (pc' = "tcp" /\ inbox # <<>> /\ WellFormed(Head(inbox).data))]_vars

C15_Witness ==
  /\ pc = "err"
  /\ errPhase = "punch"
  /\ lastRead # NoDatagram
  /\ ~WellFormed(lastRead.data)
  /\ bursts > 1

\* C18: query returns an address only from a datagram of at least 20 bytes
\* with message type 0x0101, magic cookie 0x2112A442 and the transaction ID
\* of the request; every other datagram makes it fail.
C18_StunHeaderChecked ==
  (step = "parsed" /\ result.ok) =>
    /\ Len(data) >= 20
    /\ SubSeq(data, 1, 2) = <<1, 1>>
    /\ SubSeq(data, 5, 8) = <<33, 18, 164, 66>>
    /\ SubSeq(data, 9, 20) = transaction_id

C18_Witness ==
  /\ step = "parsed"
  /\ response.msg_type = 257 /\ response.cookie = COOKIE_BYTES /\ response.cut = 0
  /\ response.layout = "X"
  /\ response.tx = "other"
  /\ result = StunErr("Transaction ID mismatch")

\* C19: from a valid binding response that carries both address attributes,
\* in either order, query returns the address of XOR-MAPPED-ADDRESS; the
\* address of MAPPED-ADDRESS is returned when it is the only one.
C19_XorMappedPreferred ==
  (step = "parsed" /\ response.msg_type = 257 /\ response.cookie = COOKIE_BYTES
     /\ response.tx = "same" /\ response.cut = 0) =>
    /\ response.layout \in {"XM", "MX"} =>
         result = StunResponse(response.xaddr.ip, response.xaddr.port)
    /\ response.layout = "M" => result = StunResponse(MappedAddr.ip, MappedAddr.port)

\* C20: a valid binding response whose XOR-MAPPED-ADDRESS carries port P xor
\* 0x2112 and IPv4 address A xor 0x2112A442 decodes to exactly (A, P),
\* whatever the transaction ID.
C20_XorDecodeExact ==
  (step = "parsed" /\ response.msg_type = 257 /\ response.cookie = COOKIE_BYTES
     /\ response.tx = "same" /\ response.cut = 0 /\ response.layout \in {"X", "XM", "SX"}) =>
    /\ result.ok
    /\ result.external_ip = response.xaddr.ip
    /\ result.external_port = response.xaddr.port

C20_Witness ==
  /\ step = "parsed"
  /\ response.layout = "SX"
  /\ response.xaddr = [ip |-> <<255, 255, 255, 255>>, port |-> 8466]
  /\ transaction_id = [i \in 1..12 |-> 255]
  /\ SubSeq(data, 29, 32) = <<0, 32, 0, 8>>
  /\ SubSeq(data, 33, 36) = <<0, 1, 0, 0>>
  /\ SubSeq(data, 37, 40) = <<222, 237, 91, 189>>
  /\ result = StunResponse(<<255, 255, 255, 255>>, 8466)

\* some attribute of the datagram, walked from the 0-based offset on, has a
\* header or a declared value length that runs past the end of the datagram
RECURSIVE TruncatedFrom(_, _)
TruncatedFrom(d, offset) ==
  IF offset >= Len(d) THEN FALSE
  ELSE IF offset + 4 > Len(d) THEN TRUE
  ELSE LET attr_len == u16_from_be_bytes(<<d[offset + 3], d[offset + 4]>>)
       IN IF offset + 4 + attr_len > Len(d) THEN TRUE
          ELSE TruncatedFrom(d, offset + 4 + ((attr_len + 3) \div 4) * 4)

\* C21: a STUN response with a truncated attribute (its header or its
\* declared value length runs past the end of the datagram) makes query
\* return an error; no address is returned.
C21_TruncatedAttributeFails ==
  (step = "parsed" /\ Len(data) >= STUN_HEADER_LEN /\ TruncatedFrom(data, STUN_HEADER_LEN)) =>
    ~result.ok

\* some complete address attribute of the datagram, walked from the 0-based
\* offset on, has a family byte other than 0x01 and 0x02
RECURSIVE UnknownFamilyFrom(_, _)
UnknownFamilyFrom(d, offset) ==
  IF offset + 4 > Len(d) THEN FALSE
  ELSE LET attr_type == u16_from_be_bytes(<<d[offset + 1], d[offset + 2]>>)
           attr_len == u16_from_be_bytes(<<d[offset + 3], d[offset + 4]>>)
       IN IF offset + 4 + attr_len > Len(d) THEN FALSE
          ELSE \/ /\ attr_type \in {ATTR_MAPPED_ADDRESS, ATTR_XOR_MAPPED_ADDRESS}
                  /\ attr_len >= 8
                  /\ d[offset + 6] \notin {1, 2}
               \/ UnknownFamilyFrom(d, offset + 4 + ((attr_len + 3) \div 4) * 4)

\* C30: a STUN response with an address attribute (XOR-MAPPED-ADDRESS or
\* MAPPED-ADDRESS) whose family byte is neither 0x01 nor 0x02 makes query
\* fail, whatever other attributes the response carries.
C30_UnknownFamilyFails ==
  (step = "parsed" /\ Len(data) >= STUN_HEADER_LEN /\ UnknownFamilyFrom(data, STUN_HEADER_LEN)) =>
    ~result.ok

\* C11: alice and bob, each targeting the other through the same broker and
\* STUN server behind cone NATs with no message loss, both eventually reach
\* state Connected, and each one's PeerInfo external IP is the other's
\* reflexive IP.
C11_BothEventuallyConnected ==
  <>(\A p \in Peers :
       /\ nat[p].state = "Connected"
       /\ nat[p].peer_info.external_addr.ip = Reflexive(Other(p)).ip)

\* ----- properties of the signalling client

\* the frame that ended the last receive_message
LastRead == client.ws_stream.read[Len(client.ws_stream.read)]

\* the last frame read is a text frame carrying a message of this type
LastReadIs(tag) ==
  /\ client.ws_stream.read # <<>>
  /\ LastRead.kind = "Text"
  /\ from_str(LastRead.text).ok
  /\ from_str(LastRead.text).value.type = tag

TextsSent == SelectSeq(client.ws_stream.sent, LAMBDA f : f.kind = "Text")

\* C22: register sends exactly one register message; a register_ack with
\* success false makes it fail with a registration error that carries the
\* broker's message and leaves the client unregistered; the client is
\* registered exactly when the answer was a register_ack with success true.
C22_RegisterAckDecides ==
  (step = "returned" /\ args.op = "register") =>
    /\ TextsSent \in {<<>>, <<TextFrame([type |-> "register", fingerprint |-> args.fingerprint])>>}
    /\ client.ws_stream.read # <<>> =>
         TextsSent = <<TextFrame([type |-> "register", fingerprint |-> args.fingerprint])>>
    /\ (LastReadIs("register_ack") /\ ~from_str(LastRead.text).value.success) =>
         /\ result = ClientErr("Registration failed", from_str(LastRead.text).value.message)
         /\ client.local_fingerprint = <<>>
    /\ client.local_fingerprint = <<args.fingerprint>> <=>
         (LastReadIs("register_ack") /\ from_str(LastRead.text).value.success)
    /\ client.local_fingerprint # <<>> <=> result.ok

\* the broker refused the registration after a ping
C22_Witness ==
  /\ step = "returned"
  /\ args.op = "register"
  /\ Len(client.ws_stream.read) = 2
  /\ client.ws_stream.read[1].kind = "Ping"
  /\ LastReadIs("register_ack")
  /\ result = ClientErr("Registration failed", "taken")
  /\ client.local_fingerprint = <<>>

\* the message a frame carries is of one of these types
FrameIs(f, tags) ==
  /\ f.kind = "Text"
  /\ from_str(f.text).ok
  /\ from_str(f.text).value.type \in tags

\* C23: after sending its offer, send_offer keeps reading: register_ack,
\* offer_response, keepalive and offer messages are passed over, the first
\* forward_offer ends the wait with that peer's information (whatever its
\* nonce), and an error message ends the wait with a failure.
C23_OfferWaitEndsOnForwardOrError ==
  (args.op = "send_offer" /\ step \in {"offer_wait", "returned"}) =>
    LET read == client.ws_stream.read
        passed == IF step = "returned" /\ read # <<>> THEN SubSeq(read, 1, Len(read) - 1)
                  ELSE read
    IN /\ \A i \in 1..Len(passed) :
            passed[i].kind = "Text" =>
              FrameIs(passed[i], {"register_ack", "offer_response", "keepalive", "offer"})
       /\ (step = "returned" /\ LastReadIs("forward_offer")) =>
            /\ result.ok
            /\ result.value.fingerprint = from_str(LastRead.text).value.from_fingerprint
            /\ result.value.external_addr.ip = from_str(LastRead.text).value.external_ip
            /\ result.value.external_addr.port = from_str(LastRead.text).value.external_port
            /\ result.value.local_addr.ip = from_str(LastRead.text).value.local_ip
            /\ result.value.local_addr.port = from_str(LastRead.text).value.local_port
            /\ result.value.nonce = from_str(LastRead.text).value.nonce
       /\ (step = "returned" /\ LastReadIs("error")) =>
            result = ClientErr("Signalling error", from_str(LastRead.text).value.message)
       /\ (step = "returned" /\ result.ok) => LastReadIs("forward_offer")

\* an ack, a keepalive and then a forward_offer whose nonce is not the one sent
C23_Witness ==
  /\ args.op = "send_offer"
  /\ step = "returned"
  /\ Len(client.ws_stream.read) = 3
  /\ FrameIs(client.ws_stream.read[1], {"register_ack", "offer_response", "offer"})
  /\ FrameIs(client.ws_stream.read[2], {"keepalive"})
  /\ LastReadIs("forward_offer")
  /\ result.ok
  /\ result.value.nonce # args.nonce

\* C25: a text frame whose type is not one the client knows is passed over and
\* the client keeps waiting for the message it expects; a known message that
\* carries members the client does not know is accepted.
C25_UnknownTypeSkipped ==
  step = "returned" =>
    /\ ~( /\ client.ws_stream.read # <<>>
          /\ LastRead.kind = "Text"
          /\ LastRead.text.valid
          /\ "type" \in DOMAIN LastRead.text.members
          /\ LastRead.text.members.type \notin KnownTags )
    /\ ( /\ args.op = "register"
         /\ client.ws_stream.read # <<>>
         /\ LastRead = TextFrame([type |-> "register_ack", success |-> TRUE, message |-> "ok",
                                  server_time |-> 1]) )
       => result.ok

Payloads(frames, k) ==
  LET of == SelectSeq(frames, LAMBDA f : f.kind = k)
  IN [i \in 1..Len(of) |-> of[i].data]

\* C26: every Ping read is answered by a Pong with the same payload, in order
\* (the last one only if the connection still takes the frame); Binary and
\* Pong frames are passed over; no such frame is the result of a wait, and a
\* wait ends on one only when the stream ends behind it or its Pong cannot be
\* sent.
C26_PingAnsweredOthersIgnored ==
  LET pings == Payloads(client.ws_stream.read, "Ping")
      pongs == Payloads(client.ws_stream.sent, "Pong")
      unsent == /\ client.ws_stream.read # <<>>
                /\ LastRead.kind = "Ping"
                /\ client.ws_stream.writable = 0
                /\ result = ClientErr("tungstenite error", "")
  IN /\ IF unsent THEN pongs = SubSeq(pings, 1, Len(pings) - 1) ELSE pongs = pings
     /\ \A i \in 1..Len(client.ws_stream.sent) :
          client.ws_stream.sent[i].kind \in {"Text", "Pong"}
     /\ (step = "returned" /\ client.ws_stream.read # <<>>
           /\ LastRead.kind \in {"Ping", "Pong", "Binary"}) =>
          \/ client.ws_stream.incoming = <<>> /\ result = ClientErr("Connection closed", "")
          \/ unsent
     /\ (step = "offer_wait" /\ client.ws_stream.read # <<>>) =>
          LastRead.kind = "Text"

\* a wait that passed over a ping, a pong and a binary frame; the ping was
\* answered
C26_Witness ==
  /\ step = "returned"
  /\ Len(client.ws_stream.read) = 3
  /\ \E i, j, k \in 1..3 :
       /\ client.ws_stream.read[i].kind = "Ping"
       /\ client.ws_stream.read[j].kind = "Pong"
       /\ client.ws_stream.read[k].kind = "Binary"
       /\ [kind |-> "Pong", data |-> client.ws_stream.read[i].data]
            = client.ws_stream.sent[Len(client.ws_stream.sent)]
  /\ result = ClientErr("Connection closed", "")

\* C24: a forward_offer that reaches a host before the host's own offer has
\* been delivered to the broker is accepted: in either order of the two
\* deliveries the wait of send_offer ends with the peer's information taken
\* from that forward_offer, and connect goes on to UDP hole punching.
C24_ForwardOfferInEitherOrder ==
  /\ [][\A p \in Peers :
          (nat[p].pc = "offer_wait" /\ nat'[p].pc # "offer_wait") =>
            /\ nat'[p].pc = "punch"
            /\ nat'[p].state = "UdpHolePunching"
            /\ nat'[p].peer_info.fingerprint = Other(p)
            /\ nat'[p].peer_info.external_addr = Reflexive(Other(p))
            /\ nat'[p].peer_info.local_addr = local_addr(HostSocket(Other(p)))]_vars
  /\ \A p \in Peers :
       (nat[p].pc = "offer" /\ ForwardWaiting(p)) ~> (nat[p].state = "UdpHolePunching")
  /\ \A p \in Peers :
       (nat[p].pc = "offer_wait" /\ ~nat[p].crossed) ~> (nat[p].state = "UdpHolePunching")

\* bob's forward_offer was there before alice sent her offer, and alice is
\* about to punch with bob's addresses
C24_Witness ==
  /\ nat["alice"].crossed
  /\ nat["alice"].pc = "punch"
  /\ nat["alice"].state = "UdpHolePunching"
  /\ nat["alice"].peer_info.external_addr = Reflexive("bob")

\* alice sent her offer first and bob's forward_offer came afterwards
C24_WitnessOfferFirst ==
  /\ ~nat["alice"].crossed
  /\ nat["alice"].pc = "punch"
  /\ nat["alice"].peer_info.external_addr = Reflexive("bob")

\* a is before b in lexicographic order of the bytes
LexLess(a, b) ==
  \E k \in 1..(Len(b)) :
    /\ \A i \in 1..(k - 1) : i <= Len(a) /\ a[i] = b[i]
    /\ \/ k = Len(a) + 1
       \/ k <= Len(a) /\ a[k] < b[k]

\* C27: of two peers with distinct identifiers that target each other, the
\* one with the lexicographically smaller identifier runs the initiator role
\* and the other the responder role: exactly one of the two is the initiator.
C27_SmallerIsInitiator ==
  (step \in {"call", "returned"} /\ DOMAIN result = Peers) =>
    /\ \A p \in Peers :
         /\ result[p] = "initiator" =>
              LexLess(args[p].local_fingerprint, args[Other(p)].local_fingerprint)
         /\ result[p] = "responder" =>
              LexLess(args[Other(p)].local_fingerprint, args[p].local_fingerprint)
    /\ step = "returned" => Cardinality({p \in Peers : result[p] = "initiator"}) = 1

\* both have chosen; the identifiers differ only behind a common first byte,
\* and one is a prefix of the other
C27_Witness ==
  /\ step = "returned"
  /\ DOMAIN result = Peers
  /\ args["alice"].local_fingerprint = <<97, 48>>
  /\ args["bob"].local_fingerprint = <<97>>
  /\ result["alice"] = "responder"
  /\ result["bob"] = "initiator"

\* C28: tcp_simultaneous_open tries the direct connect first; when that
\* succeeds its stream is returned at once, no port-reusing socket has been
\* created, bound or connected, and connect sets Connected.
C28_DirectConnectFirst ==
  /\ pc = "tcp" => (tcpBound = 0 /\ tcpConnect = "none" /\ tcpVia = "none")
  /\ tcpVia = "direct" =>
       /\ tcpBound = 0
       /\ tcpConnect = "none"
       /\ tcpElapsed = 0
       /\ tcpPolls = 0
       /\ state = "Connected"
       /\ pc = "close"
       /\ tcpPeer = [ip |-> peer_info.external_addr.ip, port |-> peerTcpPort]
  /\ (tcpBound # 0 \/ tcpConnect # "none") => pc \in {"tcp_poll", "close", "err"}

\* the peer was already listening on the port of its probe
C28_Witness ==
  /\ tcpVia = "direct"
  /\ state = "Connected"
  /\ pc = "close"
  /\ tcpBound = 0
  /\ tcpPeer = [ip |-> PeerExternal.ip, port |-> 50001]

\* C29: tcp_simultaneous_open ends; once the deadline, counted from its entry
\* with the direct attempt included, has passed without a completed
\* handshake it returns the timeout error; and an "in progress" answer of
\* the non-blocking connect is not an error: the function goes on to wait.
C29_TerminatesInProgressIsNoError ==
  /\ <>(pc \in {"close", "err"})
  /\ [][(pc = "tcp_poll" /\ tcpElapsed > TCP_TIMEOUT) => (pc' = "err" /\ errPhase' = "tcp")]_vars
  /\ [][(pc = "tcp_bind" /\ tcpConnect' \in {"WouldBlock", "InProgress"}) => pc' = "tcp_poll"]_vars

\* the messages sent on the signalling connection in this run
SentTypes == {wsSent[i] : i \in 1..Len(wsSent)}

\* C31: no error is made up for inside connect: once a phase has failed,
\* nothing of a later phase is done in that run.  A failed signalling connect
\* or register leaves no UDP socket bound and no offer sent, a failed STUN
\* query no offer sent, a failed offer exchange no probe sent, and a failed
\* hole punch no TCP connect attempted and no TCP socket bound.
C31_NoLaterPhaseAfterFailure ==
  /\ errPhase # "" => pc = "err"
  /\ pc = "err" =>
       /\ errPhase \in {"signalling", "register", "stun", "offer", "punch", "tcp", "close"}
       /\ errPhase = "signalling" => wsSent = <<>> /\ ~registered
       /\ errPhase \in {"signalling", "register"} => udpBinds = 0 /\ stunSock = NoSocket
       /\ errPhase \in {"signalling", "register", "stun"} =>
            "offer" \notin SentTypes /\ offer = NoOffer /\ peer_info = NoPeerInfo
       /\ errPhase \in {"signalling", "register", "stun", "offer"} =>
            bursts = 0 /\ sentTo = {} /\ punchSock = NoSocket /\ probePort = 0
       /\ errPhase \in {"signalling", "register", "stun", "offer", "punch"} =>
            /\ tcpBound = 0
            /\ tcpPeer = NoAddr
            /\ tcpVia = "none"
            /\ tcpConnect = "none"
            /\ peerTcpPort = 0
       /\ errPhase # "close" => ~closeCalled

\* the STUN query failed behind a successful registration
C31_Witness ==
  /\ pc = "err"
  /\ errPhase = "stun"
  /\ udpBinds = 1
  /\ wsSent = <<"register">>
  /\ bursts = 0
  /\ tcpBound = 0

\* C32: the state changes only where one phase hands over to the next: all
\* through send_offer (offer sent, waiting for the forward_offer) it is
\* SendingOffer, all through punch_hole it is UdpHolePunching, all through
\* tcp_simultaneous_open it is TcpConnecting, and WaitingForOffer is never
\* taken.
C32_StateChangesAtPhaseBoundaries ==
  /\ state # "WaitingForOffer"
  /\ \A i \in 1..Len(trace) : trace[i] # "WaitingForOffer"
  /\ pc = "signalling" => state = "ConnectingSignalling"
  /\ pc = "register" => state = "Registering"
  /\ pc = "stun" => state = "StunDiscovery"
  /\ pc \in {"offer", "offer_wait"} => state = "SendingOffer"
  /\ pc \in {"punch", "punch_loop"} => state = "UdpHolePunching"
  /\ pc \in {"tcp", "tcp_bind", "tcp_poll"} => state = "TcpConnecting"
  /\ pc \in {"close", "ok"} => state = "Connected"

\* send_offer passed over a message before the forward_offer came, and
\* punch_hole is in its loop behind a burst
C32_Witness ==
  /\ calls = 1
  /\ pc = "punch_loop"
  /\ bursts > 0
  /\ polls > 0
  /\ ignored > 0
  /\ state = "UdpHolePunching"
  /\ trace = <<"Idle", "ConnectingSignalling", "Registering", "StunDiscovery", "SendingOffer",
               "UdpHolePunching">>

\* C33: the state is Connected only for a run that handed the stream to the
\* caller: whenever connect has returned an error, the error of closing the
\* signalling connection included, the state is not Connected.
C33_NotConnectedOnError ==
  pc = "err" => state # "Connected"

\* C34: the PeerInfo send_offer returns belongs to the requested target: its
\* fingerprint, the from_fingerprint of the forward_offer accepted, is the
\* target_fingerprint of the offer that was sent.
C34_PeerInfoIsTargets ==
  (args.op = "send_offer" /\ step = "returned" /\ result.ok) =>
    /\ TextsSent # <<>>
    /\ TextsSent[1].text.members.type = "offer"
    /\ result.value.fingerprint = TextsSent[1].text.members.target_fingerprint

\* C35: punch_hole returns a TCP port only from a datagram whose source
\* address is one of the candidate addresses it was given; a probe that
\* parses but comes from another address does not end hole punching.
C35_ProbeSourceIsCandidate ==
  (pc = "tcp" /\ peerTcpPort # 0) => lastRead.src \in {peer_addrs[1], peer_addrs[2]}

\* C36: with both hosts in punch_hole, each reachable at the address the
\* other was given and no datagram lost, both calls eventually return the
\* other's TCP port; a host that returns on a probe has sent a probe itself
\* before, so that its return leaves the other one not waiting for the
\* timeout.
C36_BothPunchHolesReturn ==
  /\ [](\A p \in Peers : nat[p].peer_tcp_port # 0 => nat[p].sent_probe)
  /\ \A p \in Peers :
       (\A q \in Peers : nat[q].pc = "punch_loop")
         ~> (nat[p].peer_tcp_port # 0 /\ nat[p].peer_tcp_port = nat[Other(p)].probe_port)

\* the 0-based offset at which the first address attribute of the datagram
\* ends (header and value), walked from the 0-based offset on; 0 when the
\* walk finds no complete address attribute
RECURSIVE FirstAddressEnd(_, _)
FirstAddressEnd(d, offset) ==
  IF offset + 4 > Len(d) THEN 0
  ELSE LET attr_type == u16_from_be_bytes(<<d[offset + 1], d[offset + 2]>>)
           attr_len == u16_from_be_bytes(<<d[offset + 3], d[offset + 4]>>)
       IN IF offset + 4 + attr_len > Len(d) THEN 0
          ELSE IF attr_type \in {ATTR_MAPPED_ADDRESS, ATTR_XOR_MAPPED_ADDRESS}
          THEN offset + 4 + attr_len
          ELSE FirstAddressEnd(d, offset + 4 + ((attr_len + 3) \div 4) * 4)

\* C37: parse_binding_response takes an address only from an attribute that
\* lies entirely within the message length declared in the STUN header; the
\* bytes of the datagram after offset 20 + declared length never contribute
\* to the returned address.
C37_AddressWithinDeclaredLength ==
  (step = "parsed" /\ result.ok) =>
    LET msg_len == u16_from_be_bytes(<<data[3], data[4]>>)
    IN /\ FirstAddressEnd(data, STUN_HEADER_LEN) # 0
       /\ FirstAddressEnd(data, STUN_HEADER_LEN) <= STUN_HEADER_LEN + msg_len
       /\ result = parse_binding_response(SubSeq(data, 1, STUN_HEADER_LEN + msg_len),
                                          transaction_id)

\* the iterations the attribute loop makes on the datagram of the state; none
\* when a header check or the length check returns first
LoopOf(d, txid) ==
  IF 3 \notin header_reads(d, txid) THEN <<>>
  ELSE IF Len(d) < STUN_HEADER_LEN + u16_from_be_bytes(<<d[3], d[4]>>) THEN <<>>
  ELSE attribute_reads(d, STUN_HEADER_LEN, u16_from_be_bytes(<<d[3], d[4]>>))

\* C38: for every datagram parse_binding_response terminates without an
\* out-of-range index: the attribute offset strictly increases on every loop
\* iteration and every byte read lies within the datagram, the reads of the
\* XOR-MAPPED-ADDRESS and MAPPED-ADDRESS decoders in attribute values shorter
\* than 8 bytes (IPv4) or 20 bytes (IPv6) included.
C38_NoOutOfRangeIndex ==
  step = "parsed" =>
    LET loop == LoopOf(data, transaction_id)
    IN /\ result # NoResult
       /\ \A i \in header_reads(data, transaction_id) : i < Len(data)
       /\ \A k \in 1..Len(loop) :
            /\ \A i \in loop[k].reads : 0 <= i /\ i < Len(data)
            /\ loop[k].from <= loop[k].to /\ loop[k].to <= Len(data)
            /\ \A i \in loop[k].value_reads : 0 <= i /\ i < loop[k].to - loop[k].from
            /\ k > 1 => loop[k].offset >= loop[k - 1].offset + 4
       /\ loop # <<>> => loop[1].offset = STUN_HEADER_LEN

C38_Witness ==
  /\ step = "parsed"
  /\ response.layout = "X6short" /\ response.cut = 0 /\ response.tx = "same"
  /\ response.msg_type = STUN_BINDING_RESPONSE /\ response.cookie = COOKIE_BYTES
  /\ Len(LoopOf(data, transaction_id)) = 1
  /\ LoopOf(data, transaction_id)[1].to - LoopOf(data, transaction_id)[1].from = 8
  /\ LoopOf(data, transaction_id)[1].value_reads = {1, 2, 3}
  /\ result = StunErr("Invalid IPv6 address length")

C38_WitnessShortValue ==
  /\ step = "parsed"
  /\ response.layout = "Xshort" /\ response.cut = 0 /\ response.tx = "same"
  /\ response.msg_type = STUN_BINDING_RESPONSE /\ response.cookie = COOKIE_BYTES
  /\ LoopOf(data, transaction_id)[1].to - LoopOf(data, transaction_id)[1].from = 4
  /\ LoopOf(data, transaction_id)[1].value_reads = {}
  /\ result = StunErr("XOR-MAPPED-ADDRESS too short")

C38_WitnessSecondIteration ==
  /\ step = "parsed"
  /\ response.layout = "SX" /\ response.cut = 0 /\ result.ok
  /\ Len(LoopOf(data, transaction_id)) = 2
  /\ LoopOf(data, transaction_id)[2].offset = 28
  /\ LoopOf(data, transaction_id)[2].value_reads = 1..7

\* C39: register tolerates other broker messages before the
\* acknowledgement: a keepalive (or another message that is no register_ack)
\* arriving after the register message was sent and before the register_ack
\* does not make registration fail, and the register_ack with success true
\* that follows it still registers the client.
C39_RegisterToleratesOtherMessages ==
  LET script == client.ws_stream.read \o client.ws_stream.incoming
  IN (/\ step = "returned"
      /\ args.op = "register"
      /\ TextsSent = <<TextFrame([type |-> "register", fingerprint |-> args.fingerprint])>>
      /\ Len(script) >= 2
      /\ FrameIs(script[1], {"keepalive", "offer_response", "forward_offer", "offer"})
      /\ FrameIs(script[2], {"register_ack"})
      /\ from_str(script[2].text).value.success) =>
       /\ result.ok
       /\ client.local_fingerprint = <<args.fingerprint>>

====
